---- MODULE Spec2Model ----
(***************************************************************************)
(* Model of the in-memory TTL cache "mem" (package mem): the store         *)
(* (Set/Get/Replace/Delete/ClearAll/CleanExpired) and the cleaner that     *)
(* sweeps it on a schedule (NewCleaner, Run, execRunner, UpdateNextRun).   *)
(***************************************************************************)
EXTENDS Integers, Sequences, FiniteSets, TLC

(***************************************************************************)
(* Bounds of the model.                                                    *)
(***************************************************************************)
\* the wall clock (Unix seconds) runs over 1..MaxTime
MaxTime == 2
\* Expire arguments are drawn from 0..MaxExpire (0 = never expires)
MaxExpire == 2
\* the clock of the specification of several Run loops runs from 1 to MaxRunTime
MaxRunTime == 3

Keys == {"k1", "k2"}
Values == {"v1", "v2"}
Times == 1..MaxTime
Expiries == 0..MaxExpire

\* the nil byte slice returned by Get when nothing is found
Nil == "nil"
\* the nil error
NoError == "nil"
ErrKeyExists == "key already exists"
ErrKeyNotFound == "key not found"

\* schedule types
FREQUENTLY == 0
DAILY == 1
WEEKLY == 2
MONTHLY == 3
\* frequently interval options
EVERY_SECOND == 1
EVERY_MINUTE == 2
EVERY_HOUR == 3
\* day name options
SUNDAY == 1
SATURDAY == 7
\* the errors of CleanerSchedule.Error
ErrInvalidScheduleType == "invalid schedule type"
ErrStartTimeNotAllowed == "start time input is not allowed"
ErrInvalidInterval == "invalid interval"
ErrInvalidStartTime == "invalid start time"
\* NewCleaner has not returned yet
Pending == "pending"

\* strings that are parsed are sequences of characters
Str1030 == <<"1", "0", ":", "3", "0">>
Str2400 == <<"2", "4", ":", "0", "0">>
Str10 == <<"1", "0">>
Str1s00 == <<"1", "s", ":", "0", "0">>
StrBlank == <<" ">>
StrEmpty == <<>>

VARIABLES
    data,       \* Cache.data: map from key to *MemData
    now,        \* time.Now().Unix()
    last,       \* the last call made and what it returned
    pre,        \* Cache.data as it was when the last call was made
    ncArgs,     \* the arguments of the NewCleaner call
    ncErr,      \* the error NewCleaner returned
    cleaner,    \* the *Cleaner that NewCleaner returned
    runState,   \* where the cleaner is: "calling", "failed", "new", "polling", "returned"
    TS,         \* TS.CleanerList: map from task name to []Cleaner
    ChannelTS,  \* number of signals buffered in ChannelTS (capacity 1)
    nsec,       \* time.Now().Nanosecond()
    gt,         \* a call of GetTime: its argument and what came of it
    loops,      \* the Run calls of several cleaners: cleaner and position of each
    started,    \* the cleaners whose Run was called, in the order of the calls
    mu,         \* Cache.mu: the goroutine holding the write lock, those holding read locks
    procs,      \* goroutines calling the store: the call and the position in it
    locks,      \* TS.mu and the mu of every cleaner: their holders
    gos,        \* the goroutines of Run and of execRunner: position and local variables
    fired,      \* the firings so far: task name, due instant and goroutine of each
    crashed     \* the runtime has thrown "concurrent map iteration and map write"

storeVars == <<data, now, last, pre>>
cleanerVars == <<ncArgs, ncErr, cleaner, runState, TS, ChannelTS>>
\* what the store with one cleaner does not use
\* what only the statement-level model of the scheduler uses
schedVars == <<locks, gos, fired, crashed>>
auxVars == <<nsec, gt, loops, started, mu, procs, schedVars>>
vars == <<data, now, last, pre, ncArgs, ncErr, cleaner, runState, TS, ChannelTS,
          nsec, gt, loops, started, mu, procs, locks, gos, fired, crashed>>

(***************************************************************************)
(* The store.                                                              *)
(***************************************************************************)
MemData == [Key : Keys, Value : Values, Expire : Expiries, Created : Times]

\* a call record: the operation, its arguments and its results
Call(op, key, m, err, found, ret) ==
    [op |-> op, key |-> key, m |-> m, err |-> err, found |-> found, ret |-> ret]

\* the argument record of a call that takes no *MemData
NoArg == [Key |-> "", Value |-> Nil, Expire |-> 0]

NoCall == Call("none", "", NoArg, NoError, FALSE, Nil)

\* NewCache: an empty map
NewCache == [k \in {} |-> Nil]

\* IsExpired with the comparison off by one
IsExpired_AtOrBefore(m, t) ==
    IF m.Expire = 0 THEN FALSE ELSE m.Expire <= t

\* IsExpired without the test for 0
IsExpired_NoNever(m, t) == m.Expire < t

\* MemData.IsExpired at clock reading t
IsExpired(m, t) ==
    IF m.Expire = 0 THEN FALSE ELSE m.Expire < t

\* Set that takes an expired entry for an absent one
SetResult_OverExpired(d, m, t) ==
    IF m.Key \in DOMAIN d /\ ~IsExpired(d[m.Key], t)
    THEN [data |-> d, err |-> ErrKeyExists]
    ELSE [data |-> [k \in DOMAIN d \cup {m.Key} |->
                      IF k = m.Key
                      THEN [Key |-> m.Key, Value |-> m.Value,
                            Expire |-> m.Expire, Created |-> t]
                      ELSE d[k]],
          err |-> NoError]

\* Set(m) on the map d at clock reading t: the map afterwards and the error
SetResult(d, m, t) ==
    IF m.Key \in DOMAIN d
    THEN [data |-> d, err |-> ErrKeyExists]
    ELSE [data |-> [k \in DOMAIN d \cup {m.Key} |->
                      IF k = m.Key
                      THEN [Key |-> m.Key, Value |-> m.Value,
                            Expire |-> m.Expire, Created |-> t]
                      ELSE d[k]],
          err |-> NoError]

\* what Get(key) returns on store d at clock reading t: <<value, found>>
GetRet(d, key, t) ==
    IF key \in DOMAIN d /\ ~IsExpired(d[key], t)
    THEN <<d[key].Value, TRUE>>
    ELSE <<Nil, FALSE>>

\* Replace that does not test the expiry
ReplaceResult_IgnoreExpiry(d, key, m, t) ==
    IF key \in DOMAIN d
    THEN [data |-> [d EXCEPT ![key].Value = m.Value, ![key].Expire = m.Expire],
          err |-> NoError]
    ELSE [data |-> d, err |-> ErrKeyNotFound]

\* Replace that stores a fresh entry, Created included
ReplaceResult_Fresh(d, key, m, t) ==
    IF key \in DOMAIN d /\ ~IsExpired(d[key], t)
    THEN [data |-> [d EXCEPT ![key].Value = m.Value, ![key].Expire = m.Expire,
                             ![key].Created = t],
          err |-> NoError]
    ELSE [data |-> d, err |-> ErrKeyNotFound]

\* Replace(key, m) on the map d at clock reading t: the map afterwards and the error
ReplaceResult(d, key, m, t) ==
    IF key \in DOMAIN d /\ ~IsExpired(d[key], t)
    THEN [data |-> [d EXCEPT ![key].Value = m.Value, ![key].Expire = m.Expire],
          err |-> NoError]
    ELSE [data |-> d, err |-> ErrKeyNotFound]

\* Delete with the test inverted: every other key goes
AfterDelete_Others(d, key) == [k \in DOMAIN d \cap {key} |-> d[k]]

\* the map after Delete(key)
AfterDelete(d, key) == [k \in DOMAIN d \ {key} |-> d[k]]

\* ClearAll that assigns the new map to a copy
AfterClearAll_Copy(d) == d

\* the map after ClearAll()
AfterClearAll(d) == NewCache

\* CleanExpired that stops after the first expired entry
AfterCleanExpired_First(d, t) ==
    LET expired == {x \in DOMAIN d : IsExpired(d[x], t)}
    IN  IF expired = {} THEN d
        ELSE [k \in DOMAIN d \ {CHOOSE x \in expired : TRUE} |-> d[k]]

\* CleanExpired that removes every entry that has an expiry
AfterCleanExpired_AllTimed(d, t) ==
    [k \in {x \in DOMAIN d : d[x].Expire = 0} |-> d[k]]

\* the map after CleanExpired at clock reading t
AfterCleanExpired(d, t) ==
    [k \in {x \in DOMAIN d : ~IsExpired(d[x], t)} |-> d[k]]

(***************************************************************************)
(* The cleaner: construction and validation.                               *)
(***************************************************************************)
\* CleanerSchedule{}
CleanerSchedule(scheduleType, interval, intervalValue, startTime) ==
    [ScheduleType |-> scheduleType, Interval |-> interval,
     IntervalValue |-> intervalValue, StartTime |-> startTime]

\* Cleaner.Remarks: "" or "<task> ran successfully on <time>"
NoRemarks == [task |-> "", at |-> 0]

\* the nil *Cleaner
NilCleaner ==
    [TaskName |-> "nil", Schedule |-> CleanerSchedule(0, 0, 0, StrEmpty),
     LastRun |-> 0, NextRun |-> 0, Remarks |-> NoRemarks]

\* unicode.IsSpace on the characters of the model
IsSpace(ch) == ch \in {" ", "\t", "\n", "\r"}

\* strings.TrimSpace
RECURSIVE TrimSpace(_)
TrimSpace(s) ==
    IF Len(s) = 0 THEN s
    ELSE IF IsSpace(Head(s)) THEN TrimSpace(Tail(s))
    ELSE IF IsSpace(s[Len(s)]) THEN TrimSpace(SubSeq(s, 1, Len(s) - 1))
    ELSE s

\* Error with the last day of the month left out
Error_Day30(cs) ==
    IF cs.ScheduleType \notin {FREQUENTLY, DAILY, WEEKLY, MONTHLY}
    THEN ErrInvalidScheduleType
    ELSE CASE cs.ScheduleType = FREQUENTLY ->
                IF cs.Interval \in {EVERY_SECOND, EVERY_MINUTE, EVERY_HOUR}
                THEN IF Len(TrimSpace(cs.StartTime)) = 0
                     THEN NoError
                     ELSE ErrStartTimeNotAllowed
                ELSE ErrInvalidInterval
           [] cs.ScheduleType = DAILY ->
                IF Len(TrimSpace(cs.StartTime)) = 0
                THEN ErrInvalidStartTime
                ELSE NoError
           [] cs.ScheduleType = WEEKLY ->
                IF cs.Interval \in SUNDAY..SATURDAY
                THEN IF Len(TrimSpace(cs.StartTime)) = 0
                     THEN ErrInvalidStartTime
                     ELSE NoError
                ELSE ErrInvalidInterval
           [] cs.ScheduleType = MONTHLY ->
                IF Len(TrimSpace(cs.StartTime)) = 0
                THEN ErrInvalidStartTime
                ELSE IF cs.Interval >= 1 /\ cs.Interval < 31
                     THEN NoError
                     ELSE ErrInvalidInterval

\* CleanerSchedule.Error: the error of a schedule, NoError when it is valid
Error(cs) ==
    IF cs.ScheduleType \notin {FREQUENTLY, DAILY, WEEKLY, MONTHLY}
    THEN ErrInvalidScheduleType
    ELSE CASE cs.ScheduleType = FREQUENTLY ->
                IF cs.Interval \in {EVERY_SECOND, EVERY_MINUTE, EVERY_HOUR}
                THEN IF Len(TrimSpace(cs.StartTime)) = 0
                     THEN NoError
                     ELSE ErrStartTimeNotAllowed
                ELSE ErrInvalidInterval
           [] cs.ScheduleType = DAILY ->
                IF Len(TrimSpace(cs.StartTime)) = 0
                THEN ErrInvalidStartTime
                ELSE NoError
           [] cs.ScheduleType = WEEKLY ->
                IF cs.Interval \in SUNDAY..SATURDAY
                THEN IF Len(TrimSpace(cs.StartTime)) = 0
                     THEN ErrInvalidStartTime
                     ELSE NoError
                ELSE ErrInvalidInterval
           [] cs.ScheduleType = MONTHLY ->
                IF Len(TrimSpace(cs.StartTime)) = 0
                THEN ErrInvalidStartTime
                ELSE IF cs.Interval >= 1 /\ cs.Interval <= 31
                     THEN NoError
                     ELSE ErrInvalidInterval

\* the options: each is a CleanerSchedule with some fields set
WithInterval(interval) == CleanerSchedule(0, interval, 0, StrEmpty)
WithIntervalValue(interval, value) == CleanerSchedule(0, interval, value, StrEmpty)
WithStartTime(startTime) == CleanerSchedule(0, 0, 0, startTime)
WithWeekDay(weekday) == CleanerSchedule(0, weekday, 0, StrEmpty)
WithDayOfMonth(dayOfMonth) == CleanerSchedule(0, dayOfMonth, 0, StrEmpty)

\* ApplyOption keeping the first value supplied for a field
ApplyOption_KeepFirst(cs, opt) ==
    [cs EXCEPT
        !.Interval = IF @ # 0 THEN @ ELSE opt.Interval,
        !.IntervalValue = IF @ # 0 THEN @ ELSE opt.IntervalValue,
        !.StartTime = IF @ # StrEmpty THEN @ ELSE opt.StartTime]

\* the body of NewCleaner's loop: one option applied to the schedule
ApplyOption(cs, opt) ==
    [cs EXCEPT
        !.Interval = IF opt.Interval = 0 THEN @ ELSE opt.Interval,
        !.IntervalValue = IF opt.IntervalValue = 0 THEN @ ELSE opt.IntervalValue,
        !.StartTime = IF opt.StartTime = StrEmpty THEN @ ELSE opt.StartTime]

\* NewCleaner's loop over opts
RECURSIVE ApplyOptions(_, _)
ApplyOptions(cs, opts) ==
    IF Len(opts) = 0 THEN cs
    ELSE ApplyOptions(ApplyOption(cs, Head(opts)), Tail(opts))

\* NewCleaner: the cleaner and the error returned
NewCleaner(scheduleType, opts) ==
    LET cs == ApplyOptions(CleanerSchedule(scheduleType, 0, 0, StrEmpty), opts)
    IN  IF Error(cs) # NoError
        THEN [cleaner |-> NilCleaner, err |-> Error(cs)]
        ELSE [cleaner |-> [TaskName |-> "", Schedule |-> cs, LastRun |-> 0,
                           NextRun |-> 0, Remarks |-> NoRemarks],
              err |-> NoError]

(***************************************************************************)
(* Packages strings, strconv and time, as far as the cleaner calls them.   *)
(* time.Local is modelled as a zone with offset 0 all year.                *)
(***************************************************************************)
\* strings.Split(s, sep) for a separator of one character
RECURSIVE Split(_, _)
Split(s, sep) ==
    IF \A i \in 1..Len(s) : s[i] # sep
    THEN <<s>>
    ELSE LET i == CHOOSE j \in 1..Len(s) : s[j] = sep /\ \A k \in 1..(j - 1) : s[k] # sep
         IN  <<SubSeq(s, 1, i - 1)>> \o Split(SubSeq(s, i + 1, Len(s)), sep)

IsDigit(ch) == ch \in {"0", "1", "2", "3", "4", "5", "6", "7", "8", "9"}

DigitValue(ch) ==
    CASE ch = "0" -> 0 [] ch = "1" -> 1 [] ch = "2" -> 2 [] ch = "3" -> 3
      [] ch = "4" -> 4 [] ch = "5" -> 5 [] ch = "6" -> 6 [] ch = "7" -> 7
      [] ch = "8" -> 8 [] ch = "9" -> 9

\* the number that a string of digits writes
RECURSIVE DigitsValue(_)
DigitsValue(s) ==
    IF Len(s) = 0 THEN 0
    ELSE DigitsValue(SubSeq(s, 1, Len(s) - 1)) * 10 + DigitValue(s[Len(s)])

\* strconv.Atoi: an optional sign, then one digit or more and nothing else
\* (the strings of the model are too short for a range error)
Atoi(s) ==
    LET signed == Len(s) > 0 /\ s[1] \in {"+", "-"}
        digits == IF signed THEN Tail(s) ELSE s
    IN  IF Len(digits) = 0 \/ \E i \in 1..Len(digits) : ~IsDigit(digits[i])
        THEN [ok |-> FALSE, val |-> 0]
        ELSE [ok |-> TRUE,
              val |-> IF signed /\ s[1] = "-" THEN 0 - DigitsValue(digits)
                      ELSE DigitsValue(digits)]

IsLeap(year) == year % 4 = 0 /\ (year % 100 # 0 \/ year % 400 = 0)

\* the days of month m of a year
DaysIn(year, m) ==
    CASE m \in {1, 3, 5, 7, 8, 10, 12} -> 31
      [] m \in {4, 6, 9, 11} -> 30
      [] m = 2 -> IF IsLeap(year) THEN 29 ELSE 28

\* the leap years among the years 1..year
LeapsThrough(year) == year \div 4 - year \div 100 + year \div 400

\* the days from 1 January 1970 to 1 January of a year
DaysBeforeYear(year) == 365 * (year - 1970) + LeapsThrough(year - 1) - LeapsThrough(1969)

\* the days of a year before its month m
RECURSIVE DaysBeforeMonth(_, _)
DaysBeforeMonth(year, m) ==
    IF m = 1 THEN 0 ELSE DaysBeforeMonth(year, m - 1) + DaysIn(year, m - 1)

\* time.Date(year, month, day, hour, min, sec, 0, time.Local).Unix(): a month
\* outside 1..12 carries into the year, and day, hour, min and sec outside
\* their ranges carry into the instant
Date(year, month, day, hour, min, sec) ==
    LET y == year + (month - 1) \div 12
        m == ((month - 1) % 12) + 1
    IN  (DaysBeforeYear(y) + DaysBeforeMonth(y, m) + day - 1) * 86400
            + hour * 3600 + min * 60 + sec

\* the day of instant t counted from 1 January 1970
UnixDay(t) == t \div 86400

\* the date of the instant with Unix time t, for the years 1970 to 2037
Civil(t) ==
    LET y0 == 1970 + UnixDay(t) \div 366
        y == IF UnixDay(t) < DaysBeforeYear(y0 + 1) THEN y0 ELSE y0 + 1
        yday == UnixDay(t) - DaysBeforeYear(y)
        m == CHOOSE k \in 1..12 :
                /\ DaysBeforeMonth(y, k) <= yday
                /\ yday < DaysBeforeMonth(y, k) + DaysIn(y, k)
    IN  [year |-> y, month |-> m, day |-> yday - DaysBeforeMonth(y, m) + 1]

\* Time.Year, Time.Month, Time.Day, Time.Weekday (Sunday = 0), Time.Hour,
\* Time.Minute and Time.Second of the instant with Unix time t
Year(t) == Civil(t).year
Month(t) == Civil(t).month
Day(t) == Civil(t).day
Weekday(t) == (UnixDay(t) + 4) % 7
Hour(t) == (t % 86400) \div 3600
Minute(t) == (t % 3600) \div 60
Second(t) == t % 60

\* Time.AddDate(years, months, days) of the instant t, as Unix time
AddDate(t, years, months, days) ==
    LET d == Civil(t)
    IN  Date(d.year + years, d.month + months, d.day + days, Hour(t), Minute(t), Second(t))

\* 2^64 nanoseconds in units of a minute and of an hour: units whole units
\* and sec seconds and nsec nanoseconds; fits is the largest number of units
\* below 2^63 nanoseconds
TwoTo64(interval) ==
    CASE interval = EVERY_MINUTE ->
            [fits |-> 153722867, units |-> 307445734, sec |-> 33, nsec |-> 709551616]
      [] interval = EVERY_HOUR ->
            [fits |-> 2562047, units |-> 5124095, sec |-> 2073, nsec |-> 709551616]

(***************************************************************************)
(* The cleaner: next run, registry and runner.                             *)
(***************************************************************************)
\* time.Second, time.Minute, time.Hour in seconds
UnitSeconds(interval) ==
    CASE interval = EVERY_SECOND -> 1
      [] interval = EVERY_MINUTE -> 60
      [] interval = EVERY_HOUR -> 3600

\* time.Duration(iv) * unit as int64 nanoseconds: sec seconds and nsec
\* nanoseconds, 0 <= nsec < 10^9.  A product of 2^63 nanoseconds or more
\* wraps around by 2^64; the multipliers of the model wrap at most once, and
\* a multiplier with unit EVERY_SECOND does not reach 2^63 nanoseconds.
Duration(interval, iv) ==
    IF interval = EVERY_SECOND \/ iv <= TwoTo64(interval).fits
    THEN [sec |-> iv * UnitSeconds(interval), nsec |-> 0]
    ELSE LET w == TwoTo64(interval)
         IN  CASE iv <= w.units + w.fits ->
                    [sec |-> (iv - w.units) * UnitSeconds(interval) - w.sec - 1,
                     nsec |-> 1000000000 - w.nsec]

\* time.Now().Add(d).Unix() at clock reading t seconds and ns nanoseconds
AddUnix(t, ns, d) == t + d.sec + (IF ns + d.nsec >= 1000000000 THEN 1 ELSE 0)

\* GetTime(startTime): hour and minute, or the run-time panic of indexing
\* field [1] of a string that has no second field
GetTime(startTime) ==
    LET fields == Split(startTime, ":")
        startTimeHour == Atoi(fields[1])
    IN  IF ~startTimeHour.ok
        THEN [hour |-> 0, minute |-> 0, panic |-> FALSE]
        ELSE IF Len(fields) < 2
        THEN [hour |-> 0, minute |-> 0, panic |-> TRUE]
        ELSE LET startTimeMinute == Atoi(fields[2])
             IN  IF ~startTimeMinute.ok
                 THEN [hour |-> 0, minute |-> 0, panic |-> FALSE]
                 ELSE [hour |-> startTimeHour.val, minute |-> startTimeMinute.val,
                       panic |-> FALSE]

\* the next-run computation of the cleaner panics in GetTime
Panics(c) ==
    /\ c.Schedule.ScheduleType \in {DAILY, WEEKLY, MONTHLY}
    /\ GetTime(c.Schedule.StartTime).panic

\* the multiplier is set to 1 whatever it was
NextFrequently_AlwaysOne(c, t, ns) ==
    LET iv == 1
    IN  [c EXCEPT !.Schedule.IntervalValue = iv,
                  !.NextRun = IF c.Schedule.Interval \in {EVERY_SECOND, EVERY_MINUTE, EVERY_HOUR}
                              THEN AddUnix(t, ns, Duration(c.Schedule.Interval, iv))
                              ELSE @]

\* the statements that CleanFrequently and the FREQUENTLY case of
\* UpdateNextRun share, at clock reading t seconds and ns nanoseconds
NextFrequently(c, t, ns) ==
    LET iv == IF c.Schedule.IntervalValue <= 0 THEN 1 ELSE c.Schedule.IntervalValue
    IN  [c EXCEPT !.Schedule.IntervalValue = iv,
                  !.NextRun = IF c.Schedule.Interval \in {EVERY_SECOND, EVERY_MINUTE, EVERY_HOUR}
                              THEN AddUnix(t, ns, Duration(c.Schedule.Interval, iv))
                              ELSE @]

\* the statements that CleanDaily and the DAILY case of UpdateNextRun share
NextDaily(c, t) ==
    LET st == GetTime(c.Schedule.StartTime)
    IN  IF st.panic THEN c
        ELSE [c EXCEPT !.NextRun = LET d == Civil(t)
                                   IN  Date(d.year, d.month, d.day + 1,
                                            st.hour, st.minute, 0)]

\* the statements that CleanWeekly and the WEEKLY case of UpdateNextRun share
NextWeekly(c, t) ==
    LET st == GetTime(c.Schedule.StartTime)
        dayOfWeek == c.Schedule.Interval - 1
        nextDayOfWeek == AddDate(t, 0, 0, dayOfWeek + Weekday(t) - 1)
    IN  IF st.panic THEN c
        ELSE [c EXCEPT !.NextRun = LET d == Civil(nextDayOfWeek)
                                   IN  Date(d.year, d.month, d.day,
                                            st.hour, st.minute, 0)]

\* the statements that CleanMonthly and the MONTHLY case of UpdateNextRun share
NextMonthly(c, t) ==
    LET st == GetTime(c.Schedule.StartTime)
    IN  IF st.panic THEN c
        ELSE [c EXCEPT !.NextRun = LET d == Civil(t)
                                   IN  Date(d.year, d.month + 1, c.Schedule.Interval,
                                            st.hour, st.minute, 0)]

\* Cleaner.CleanFrequently, CleanDaily, CleanWeekly and CleanMonthly at clock
\* reading t seconds and ns nanoseconds: the cleaner afterwards
CleanFrequently(c, t, ns) == NextFrequently(c, t, ns)
CleanDaily(c, t) == NextDaily(c, t)
CleanWeekly(c, t) == NextWeekly(c, t)
CleanMonthly(c, t) == NextMonthly(c, t)

\* the switch of Run: the cleaner with its first next run
FirstNextRun(c, t, ns) ==
    CASE c.Schedule.ScheduleType = FREQUENTLY -> CleanFrequently(c, t, ns)
      [] c.Schedule.ScheduleType = DAILY -> CleanDaily(c, t)
      [] c.Schedule.ScheduleType = WEEKLY -> CleanWeekly(c, t)
      [] c.Schedule.ScheduleType = MONTHLY -> CleanMonthly(c, t)
      [] OTHER -> c

\* Cleaner.UpdateNextRun(taskName) at clock reading t seconds and ns
\* nanoseconds: the cleaner afterwards, unchanged when GetTime panics (its
\* last statement, UpdateCleaner, is in the actions that call it)
UpdateNextRun(c, taskName, t, ns) ==
    LET c1 == CASE c.Schedule.ScheduleType = FREQUENTLY -> NextFrequently(c, t, ns)
                [] c.Schedule.ScheduleType = DAILY -> NextDaily(c, t)
                [] c.Schedule.ScheduleType = WEEKLY -> NextWeekly(c, t)
                [] c.Schedule.ScheduleType = MONTHLY -> NextMonthly(c, t)
                [] OTHER -> c
    IN  IF Panics(c) THEN c
        ELSE [c1 EXCEPT !.Remarks = [task |-> taskName, at |-> t]]

\* the task names rand.Read can produce
TaskNames == {"t1", "t2"}

\* TS.GetCleanerSchedule(key): the error returned
GetCleanerScheduleErr(ts, key) ==
    IF key \notin DOMAIN ts THEN ErrKeyNotFound ELSE NoError

\* TS.GetCleanerSchedule(key): the cleaner and the error returned
GetCleanerSchedule(ts, key) ==
    IF key \notin DOMAIN ts
    THEN [cleaner |-> NilCleaner, err |-> ErrKeyNotFound]
    ELSE [cleaner |-> ts[key][1], err |-> NoError]

\* the cleaner is stored under the generated key also when the key is taken
AddCleaner_Overwrite(c, ts, key) ==
    LET c2 == [c EXCEPT !.TaskName = key]
    IN  [cleaner |-> c2,
         TS |-> [k \in DOMAIN ts \cup {key} |-> IF k = key THEN <<c2>> ELSE ts[k]]]

\* Cleaner.AddCleaner with generated key: the cleaner and the registry afterwards
AddCleaner(c, ts, key) ==
    IF GetCleanerScheduleErr(ts, key) = NoError
    THEN [cleaner |-> c, TS |-> ts]
    ELSE LET c2 == [c EXCEPT !.TaskName = key]
         IN  [cleaner |-> c2,
              TS |-> [k \in DOMAIN ts \cup {key} |-> IF k = key THEN <<c2>> ELSE ts[k]]]

\* UpdateCleaner(c, taskName): the registry afterwards
UpdateCleaner(ts, c, taskName) ==
    [k \in DOMAIN ts \cup {taskName} |-> IF k = taskName THEN <<c>> ELSE ts[k]]

\* the orders in which a range statement can produce the keys of a map
Orders(keys) ==
    {o \in [1..Cardinality(keys) -> keys] : \A i, j \in DOMAIN o : o[i] = o[j] => i = j}

\* the loops of execRunner(c, h) over the registry keys in the given order,
\* at clock reading t seconds and ns nanoseconds: for every cleaner s found
\* with s.NextRun equal to t, c.UpdateNextRun(s.TaskName), which ends with
\* UpdateCleaner(c, s.TaskName), then CleanExpired(h).  The result is the
\* cleaner c, the registry and the store afterwards.
RECURSIVE RangeCleaners(_, _, _, _, _, _)
RangeCleaners(order, c, ts, d, t, ns) ==
    IF order = <<>>
    THEN [cleaner |-> c, TS |-> ts, data |-> d]
    ELSE LET s == ts[Head(order)][1]
         IN  IF s.NextRun = t
             THEN LET c1 == UpdateNextRun(c, s.TaskName, t, ns)
                  IN  RangeCleaners(Tail(order), c1, UpdateCleaner(ts, c1, s.TaskName),
                                    AfterCleanExpired(d, t), t, ns)
             ELSE RangeCleaners(Tail(order), c, ts, d, t, ns)

\* the registered tasks that execRunner finds due at clock reading t
Due(ts, t) == {n \in DOMAIN ts : \E i \in 1..Len(ts[n]) : ts[n][i].NextRun = t}

(***************************************************************************)
(* Actions: one per exported operation of the store.                       *)
(***************************************************************************)
Record(c) == /\ last' = c
             /\ pre' = data

Set(m) ==
    /\ data' = SetResult(data, m, now).data
    /\ Record(Call("Set", m.Key, m, SetResult(data, m, now).err, FALSE, Nil))
    /\ UNCHANGED <<now, cleanerVars, auxVars>>

Get(key) ==
    /\ Record(Call("Get", key, NoArg, NoError,
                   GetRet(data, key, now)[2], GetRet(data, key, now)[1]))
    /\ UNCHANGED <<data, now, cleanerVars, auxVars>>

Replace(key, m) ==
    /\ data' = ReplaceResult(data, key, m, now).data
    /\ Record(Call("Replace", key, m, ReplaceResult(data, key, m, now).err, FALSE, Nil))
    /\ UNCHANGED <<now, cleanerVars, auxVars>>

Delete(key) ==
    /\ data' = AfterDelete(data, key)
    /\ Record(Call("Delete", key, NoArg, NoError, FALSE, Nil))
    /\ UNCHANGED <<now, cleanerVars, auxVars>>

ClearAll ==
    /\ data' = AfterClearAll(data)
    /\ Record(Call("ClearAll", "", NoArg, NoError, FALSE, Nil))
    /\ UNCHANGED <<now, cleanerVars, auxVars>>

CleanExpired ==
    /\ data' = AfterCleanExpired(data, now)
    /\ Record(Call("CleanExpired", "", NoArg, NoError, FALSE, Nil))
    /\ UNCHANGED <<now, cleanerVars, auxVars>>

\* the wall clock advances by one second
Tick ==
    /\ now < MaxTime
    /\ now' = now + 1
    /\ Record(Call("Tick", "", NoArg, NoError, FALSE, Nil))
    /\ UNCHANGED <<data, cleanerVars, auxVars>>

(***************************************************************************)
(* Actions of the cleaner.                                                 *)
(***************************************************************************)
\* Cleaner.Run up to its loop: the first next run, then AddCleaner; a panic
\* in GetTime ends Run before the cleaner is registered
Run ==
    /\ runState = "new"
    /\ IF Panics(cleaner)
       THEN /\ runState' = "panic"
            /\ UNCHANGED <<cleaner, TS>>
       ELSE /\ \E key \in TaskNames :
                  LET c1 == FirstNextRun(cleaner, now, nsec)
                      r  == AddCleaner(c1, TS, key)
                  IN  /\ cleaner' = r.cleaner
                      /\ TS' = r.TS
            /\ runState' = "polling"
    /\ Record(Call("Run", "", NoArg, NoError, FALSE, Nil))
    /\ UNCHANGED <<data, now, ncArgs, ncErr, ChannelTS, auxVars>>

\* one turn of Run's loop taking the time.After case: execRunner(c, h).
\* For every due task s: c.UpdateNextRun(s.TaskName), which ends with
\* UpdateCleaner(c, s.TaskName), then CleanExpired(h).
ExecRunner ==
    /\ runState = "polling"
    /\ LET due == Due(TS, now)
       IN  IF due = {}
           THEN UNCHANGED <<data, cleaner, TS, runState>>
           ELSE IF Panics(cleaner)
           THEN /\ runState' = "panic"
                /\ UNCHANGED <<data, cleaner, TS>>
           ELSE /\ \E n \in due : cleaner' = UpdateNextRun(cleaner, n, now, nsec)
                /\ TS' = [k \in DOMAIN TS |->
                            IF k \in due THEN <<UpdateNextRun(cleaner, k, now, nsec)>> ELSE TS[k]]
                /\ data' = AfterCleanExpired(data, now)
                /\ UNCHANGED runState
    /\ Record(Call("execRunner", "", NoArg, NoError, Due(TS, now) # {}, Nil))
    /\ UNCHANGED <<now, ncArgs, ncErr, ChannelTS, auxVars>>

\* a call of the exported method: cleaner.UpdateNextRun(taskName), which ends
\* with UpdateCleaner(c, taskName)
CallUpdateNextRun(taskName) ==
    /\ runState = "polling"
    /\ IF Panics(cleaner)
       THEN /\ runState' = "panic"
            /\ UNCHANGED <<cleaner, TS>>
       ELSE /\ cleaner' = UpdateNextRun(cleaner, taskName, now, nsec)
            /\ TS' = [k \in DOMAIN TS \cup {taskName} |->
                        IF k = taskName
                        THEN <<UpdateNextRun(cleaner, taskName, now, nsec)>>
                        ELSE TS[k]]
            /\ UNCHANGED runState
    /\ Record(Call("UpdateNextRun", taskName, NoArg, NoError, FALSE, Nil))
    /\ UNCHANGED <<data, now, ncArgs, ncErr, ChannelTS, auxVars>>

\* a call of GetTime with the argument gt.arg
CallGetTime ==
    /\ gt.state = "calling"
    /\ LET r == GetTime(gt.arg)
       IN  gt' = [arg |-> gt.arg,
                  state |-> IF r.panic THEN "panic" ELSE "returned",
                  hour |-> r.hour, minute |-> r.minute]
    /\ UNCHANGED <<storeVars, cleanerVars, nsec, schedVars, loops, started, mu, procs>>

\* a caller sends on ChannelTS (buffered, capacity 1)
Signal ==
    /\ ChannelTS = 0
    /\ ChannelTS' = 1
    /\ Record(Call("Signal", "", NoArg, NoError, FALSE, Nil))
    /\ UNCHANGED <<data, now, ncArgs, ncErr, cleaner, runState, TS, auxVars>>

\* one turn of Run's loop taking the ChannelTS case: Run returns
Stop ==
    /\ runState = "polling"
    /\ ChannelTS = 1
    /\ ChannelTS' = 0
    /\ runState' = "returned"
    /\ Record(Call("Stop", "", NoArg, NoError, FALSE, Nil))
    /\ UNCHANGED <<data, now, ncArgs, ncErr, cleaner, TS, auxVars>>

\* the call of NewCleaner with the arguments ncArgs
CallNewCleaner ==
    /\ runState = "calling"
    /\ LET r == NewCleaner(ncArgs.scheduleType, ncArgs.opts)
       IN  /\ cleaner' = r.cleaner
           /\ ncErr' = r.err
           /\ runState' = IF r.err = NoError THEN "new" ELSE "failed"
    /\ UNCHANGED <<data, now, last, pre, ncArgs, TS, ChannelTS, auxVars>>

(***************************************************************************)
(* Several cleaners, each with its own Run loop, on the one registry TS     *)
(* and the one channel ChannelTS.                                          *)
(***************************************************************************)
Cleaners == {"c1", "c2"}

\* Cleaner.Run of cleaner r up to its loop: the first next run, then AddCleaner
RunLoop(r) ==
    /\ loops[r].state = "new"
    /\ IF Panics(loops[r].cleaner)
       THEN /\ loops' = [loops EXCEPT ![r].state = "panic"]
            /\ UNCHANGED TS
       ELSE \E key \in TaskNames :
               LET c1 == FirstNextRun(loops[r].cleaner, now, nsec)
                   res == AddCleaner(c1, TS, key)
               IN  /\ loops' = [loops EXCEPT ![r] = [cleaner |-> res.cleaner,
                                                     state |-> "polling"]]
                   /\ TS' = res.TS
    /\ started' = Append(started, r)
    /\ Record(Call("Run", r, NoArg, NoError, FALSE, Nil))
    /\ UNCHANGED <<data, now, ncArgs, ncErr, cleaner, runState, ChannelTS, nsec, schedVars, gt, mu, procs>>

\* one turn of the loop of cleaner r taking the time.After case:
\* execRunner(c, h) with c the cleaner of the loop, ranging over the registry
\* in some order.
PollLoop(r) ==
    /\ loops[r].state = "polling"
    /\ LET due == Due(TS, now)
           c == loops[r].cleaner
       IN  IF due = {}
           THEN UNCHANGED <<data, loops, TS>>
           ELSE IF Panics(c)
           THEN /\ loops' = [loops EXCEPT ![r].state = "panic"]
                /\ UNCHANGED <<data, TS>>
           ELSE \E order \in Orders(DOMAIN TS) :
                   LET res == RangeCleaners(order, c, TS, data, now, nsec)
                   IN  /\ loops' = [loops EXCEPT ![r].cleaner = res.cleaner]
                       /\ TS' = res.TS
                       /\ data' = res.data
    /\ Record(Call("execRunner", r, NoArg, NoError, Due(TS, now) # {}, Nil))
    /\ UNCHANGED <<now, ncArgs, ncErr, cleaner, runState, ChannelTS, nsec, schedVars, gt, started, mu, procs>>

\* every polling loop returns on one signal
StopLoop_All(r) ==
    /\ loops[r].state = "polling"
    /\ ChannelTS = 1
    /\ ChannelTS' = 0
    /\ loops' = [q \in DOMAIN loops |->
                    IF loops[q].state = "polling"
                    THEN [loops[q] EXCEPT !.state = "returned"]
                    ELSE loops[q]]
    /\ Record(Call("Stop", r, NoArg, NoError, FALSE, Nil))
    /\ UNCHANGED <<data, now, ncArgs, ncErr, cleaner, runState, TS, nsec, schedVars, gt, started, mu, procs>>

\* one turn of the loop of cleaner r taking the ChannelTS case: the select
\* of this loop receives the signal and Run returns
StopLoop(r) ==
    /\ loops[r].state = "polling"
    /\ ChannelTS = 1
    /\ ChannelTS' = 0
    /\ loops' = [loops EXCEPT ![r].state = "returned"]
    /\ Record(Call("Stop", r, NoArg, NoError, FALSE, Nil))
    /\ UNCHANGED <<data, now, ncArgs, ncErr, cleaner, runState, TS, nsec, schedVars, gt, started, mu, procs>>

\* a caller looks a task up: TS.GetCleanerSchedule(key)
Lookup(key) ==
    /\ LET res == GetCleanerSchedule(TS, key)
       IN  Record(Call("GetCleanerSchedule", key, NoArg, res.err, res.err = NoError,
                       res.cleaner))
    /\ UNCHANGED <<data, now, cleanerVars, auxVars>>

\* the wall clock advances by one second while loops run
TickLoops ==
    /\ now < MaxRunTime
    /\ now' = now + 1
    /\ Record(Call("Tick", "", NoArg, NoError, FALSE, Nil))
    /\ UNCHANGED <<data, cleanerVars, auxVars>>

(***************************************************************************)
(* The store, statement by statement: goroutines that call it and take     *)
(* Cache.mu.  A goroutine is idle, then blocked in Lock or RLock ("lock"),  *)
(* then at a statement of the call, then before the deferred Unlock        *)
(* ("unlock"), then done with the results in its record.                   *)
(***************************************************************************)
Goroutines == {"g1", "g2"}

\* a goroutine that calls nothing
IdleProc ==
    [op |-> "none", key |-> "", m |-> NoArg, pc |-> "idle", during |-> {},
     snap |-> NewCache, t0 |-> 0, t |-> 0, err |-> NoError, found |-> FALSE,
     ret |-> Nil, todo |-> {}, cur |-> "", live |-> FALSE]

\* the goroutines that are inside a call
InCall == {g \in Goroutines : procs[g].pc \notin {"idle", "done"}}

\* sync.RWMutex.Lock that does not wait
CanLock_NoWait(m) == TRUE

\* sync.RWMutex.Lock returns when no goroutine holds the mutex
CanLock(m) == m.writer = "none" /\ m.readers = {}

\* sync.RWMutex.RLock returns when no goroutine holds the write lock
CanRLock(m) == m.writer = "none"

\* a goroutine calls op(key, m) and blocks in c.mu.Lock() or c.mu.RLock()
CallStore(g, op, key, m) ==
    /\ procs[g].pc = "idle"
    /\ procs' = [procs EXCEPT ![g] = [IdleProc EXCEPT !.op = op, !.key = key, !.m = m,
                                                      !.pc = "lock", !.during = InCall]]
    /\ UNCHANGED <<storeVars, cleanerVars, nsec, schedVars, gt, loops, started, mu>>

\* c.mu.Lock() returns in Set, Replace, Delete, ClearAll or CleanExpired
Lock(g) ==
    /\ procs[g].pc = "lock"
    /\ procs[g].op # "Get"
    /\ CanLock(mu)
    /\ mu' = [mu EXCEPT !.writer = g]
    /\ procs' = [procs EXCEPT ![g].snap = data, ![g].t0 = now,
                              ![g].todo = IF procs[g].op = "CleanExpired"
                                          THEN DOMAIN data ELSE {},
                              ![g].pc = CASE procs[g].op = "Set" -> "check"
                                          [] procs[g].op = "Replace" -> "check"
                                          [] procs[g].op = "Delete" -> "delete"
                                          [] procs[g].op = "ClearAll" -> "make"
                                          [] procs[g].op = "CleanExpired" -> "range"]
    /\ UNCHANGED <<storeVars, cleanerVars, nsec, schedVars, gt, loops, started>>

\* c.mu.RLock() returns in Get
RLock(g) ==
    /\ procs[g].pc = "lock"
    /\ procs[g].op = "Get"
    /\ CanRLock(mu)
    /\ mu' = [mu EXCEPT !.readers = @ \cup {g}]
    /\ procs' = [procs EXCEPT ![g].snap = data, ![g].t0 = now, ![g].pc = "read"]
    /\ UNCHANGED <<storeVars, cleanerVars, nsec, schedVars, gt, loops, started>>

\* Set: if _, ok := c.data[m.Key]; ok { return error }
SetCheck(g) ==
    /\ procs[g].op = "Set" /\ procs[g].pc = "check"
    /\ procs' = [procs EXCEPT
                    ![g].err = IF procs[g].m.Key \in DOMAIN data THEN ErrKeyExists ELSE NoError,
                    ![g].pc = IF procs[g].m.Key \in DOMAIN data THEN "unlock" ELSE "store"]
    /\ UNCHANGED <<storeVars, cleanerVars, nsec, schedVars, gt, loops, started, mu>>

\* Set: c.data[m.Key] = &MemData{...}; return nil
SetStore(g) ==
    /\ procs[g].op = "Set" /\ procs[g].pc = "store"
    /\ LET m == procs[g].m
       IN  data' = [k \in DOMAIN data \cup {m.Key} |->
                      IF k = m.Key
                      THEN [Key |-> m.Key, Value |-> m.Value, Expire |-> m.Expire,
                            Created |-> now]
                      ELSE data[k]]
    /\ procs' = [procs EXCEPT ![g].t = now, ![g].pc = "unlock"]
    /\ UNCHANGED <<now, last, pre, cleanerVars, nsec, schedVars, gt, loops, started, mu>>

\* Get: if data, ok := c.data[key]; ok && !data.IsExpired() { return data.Value, true }
GetRead(g) ==
    /\ procs[g].op = "Get" /\ procs[g].pc = "read"
    /\ LET key == procs[g].key
           hit == key \in DOMAIN data /\ ~IsExpired(data[key], now)
       IN  procs' = [procs EXCEPT ![g].t = IF key \in DOMAIN data THEN now ELSE @,
                                  ![g].found = hit,
                                  ![g].ret = IF hit THEN data[key].Value ELSE Nil,
                                  ![g].pc = "unlock"]
    /\ UNCHANGED <<storeVars, cleanerVars, nsec, schedVars, gt, loops, started, mu>>

\* Replace: if data, ok := c.data[key]; ok { if !data.IsExpired() {
ReplaceCheck(g) ==
    /\ procs[g].op = "Replace" /\ procs[g].pc = "check"
    /\ LET key == procs[g].key
           hit == key \in DOMAIN data /\ ~IsExpired(data[key], now)
       IN  procs' = [procs EXCEPT ![g].t = IF key \in DOMAIN data THEN now ELSE @,
                                  ![g].err = IF hit THEN NoError ELSE ErrKeyNotFound,
                                  ![g].pc = IF hit THEN "value" ELSE "unlock"]
    /\ UNCHANGED <<storeVars, cleanerVars, nsec, schedVars, gt, loops, started, mu>>

\* Replace: data.Value = m.Value, through the pointer read at the check
ReplaceValue(g) ==
    /\ procs[g].op = "Replace" /\ procs[g].pc = "value"
    /\ data' = IF procs[g].key \in DOMAIN data
               THEN [data EXCEPT ![procs[g].key].Value = procs[g].m.Value]
               ELSE data
    /\ procs' = [procs EXCEPT ![g].pc = "expire"]
    /\ UNCHANGED <<now, last, pre, cleanerVars, nsec, schedVars, gt, loops, started, mu>>

\* Replace: data.Expire = m.Expire; return nil
ReplaceExpire(g) ==
    /\ procs[g].op = "Replace" /\ procs[g].pc = "expire"
    /\ data' = IF procs[g].key \in DOMAIN data
               THEN [data EXCEPT ![procs[g].key].Expire = procs[g].m.Expire]
               ELSE data
    /\ procs' = [procs EXCEPT ![g].pc = "unlock"]
    /\ UNCHANGED <<now, last, pre, cleanerVars, nsec, schedVars, gt, loops, started, mu>>

\* Delete: delete(c.data, key)
DeleteKey(g) ==
    /\ procs[g].op = "Delete" /\ procs[g].pc = "delete"
    /\ data' = [k \in DOMAIN data \ {procs[g].key} |-> data[k]]
    /\ procs' = [procs EXCEPT ![g].pc = "unlock"]
    /\ UNCHANGED <<now, last, pre, cleanerVars, nsec, schedVars, gt, loops, started, mu>>

\* ClearAll: c.data = make(map[string]*MemData)
ClearAllMake(g) ==
    /\ procs[g].op = "ClearAll" /\ procs[g].pc = "make"
    /\ data' = NewCache
    /\ procs' = [procs EXCEPT ![g].pc = "unlock"]
    /\ UNCHANGED <<now, last, pre, cleanerVars, nsec, schedVars, gt, loops, started, mu>>

\* CleanExpired: the range loop takes the next key k and tests v.IsExpired(),
\* or ends
CleanExpiredRange(g) ==
    /\ procs[g].op = "CleanExpired" /\ procs[g].pc = "range"
    /\ LET left == procs[g].todo \cap DOMAIN data
       IN  IF left = {}
           THEN procs' = [procs EXCEPT ![g].todo = {}, ![g].pc = "unlock"]
           ELSE \E k \in left :
                   procs' = [procs EXCEPT ![g].todo = left \ {k},
                                          ![g].cur = k,
                                          ![g].t = now,
                                          ![g].pc = IF IsExpired(data[k], now)
                                                    THEN "remove" ELSE "range"]
    /\ UNCHANGED <<storeVars, cleanerVars, nsec, schedVars, gt, loops, started, mu>>

\* CleanExpired: delete(c.data, k); live records that the entry removed was
\* not expired at that moment
CleanExpiredDelete(g) ==
    /\ procs[g].op = "CleanExpired" /\ procs[g].pc = "remove"
    /\ data' = [k \in DOMAIN data \ {procs[g].cur} |-> data[k]]
    /\ procs' = [procs EXCEPT ![g].live = @ \/ (procs[g].cur \in DOMAIN data
                                                /\ ~IsExpired(data[procs[g].cur], now)),
                              ![g].pc = "range"]
    /\ UNCHANGED <<now, last, pre, cleanerVars, nsec, schedVars, gt, loops, started, mu>>

\* the deferred c.mu.Unlock() or c.mu.RUnlock(), and the return
Unlock(g) ==
    /\ procs[g].pc = "unlock"
    /\ mu' = IF procs[g].op = "Get"
             THEN [mu EXCEPT !.readers = @ \ {g}]
             ELSE [mu EXCEPT !.writer = IF @ = g THEN "none" ELSE @]
    /\ procs' = [procs EXCEPT ![g].pc = "done"]
    /\ UNCHANGED <<storeVars, cleanerVars, nsec, schedVars, gt, loops, started>>

(***************************************************************************)
(* Spec: the store and one cleaner running on it.  No caller sends on       *)
(* ChannelTS here, so Run's loop always takes the time.After case.         *)
(***************************************************************************)
\* no GetTime call
NoGetTime == [arg |-> StrEmpty, state |-> "none", hour |-> 0, minute |-> 0]

\* Cache.mu with no holder
Unlocked == [writer |-> "none", readers |-> {}]

\* the scheduler's locks without holders and no goroutine of the scheduler
SchedIdle ==
    /\ locks = [l \in {} |-> Unlocked]
    /\ gos = [g \in {} |-> NoCall]
    /\ fired = {}
    /\ crashed = FALSE

\* the variables that a specification does not use stay as they are here
AuxIdle ==
    /\ nsec = 0
    /\ gt = NoGetTime
    /\ loops = [r \in {} |-> NilCleaner]
    /\ started = <<>>
    /\ mu = Unlocked
    /\ procs = [p \in {} |-> NoCall]
    /\ SchedIdle

\* the MemData values a caller passes in (Created is not read by the store)
Args == [Key : Keys, Value : Values, Expire : Expiries]

\* the cleaner started in Spec: NewCleaner(FREQUENTLY, WithInterval(EVERY_SECOND))
StartedArgs ==
    {[scheduleType |-> FREQUENTLY, opts |-> <<WithInterval(EVERY_SECOND)>>]}

\* the state after c := NewCache(); Client(c); cleaner, _ := NewCleaner(...)
Init ==
    /\ data = NewCache
    /\ now = 1
    /\ last = NoCall
    /\ pre = NewCache
    /\ ncArgs \in StartedArgs
    /\ ncErr = NewCleaner(ncArgs.scheduleType, ncArgs.opts).err
    /\ cleaner = NewCleaner(ncArgs.scheduleType, ncArgs.opts).cleaner
    /\ runState = "new"
    /\ TS = [k \in {} |-> <<>>]
    /\ ChannelTS = 0
    /\ AuxIdle

Next ==
    \/ \E m \in Args : Set(m)
    \/ \E k \in Keys : Get(k)
    \/ \E k \in Keys, m \in Args : Replace(k, m)
    \/ \E k \in Keys : Delete(k)
    \/ ClearAll
    \/ CleanExpired
    \/ Tick
    \/ Run
    \/ ExecRunner

Spec == Init /\ [][Next]_vars

(***************************************************************************)
(* SpecNewCleaner: NewCleaner on every bounded argument list.              *)
(***************************************************************************)
\* schedule types passed to NewCleaner: -1..MaxScheduleTypeInput
MaxScheduleTypeInput == 4
\* at most MaxOpts options are passed
MaxOpts == 2

\* the intervals, week days and days of month passed in options: the ends of
\* the ranges that Error tests, and their neighbours
IntervalInputs == {-1, 0, 1, 2, 3, 4, 7, 8, 31, 32}

StartTimeInputs == {StrEmpty, StrBlank, Str1030}

OptionInputs ==
    {WithInterval(i) : i \in IntervalInputs}
    \cup {WithIntervalValue(i, v) : i \in {EVERY_SECOND, EVERY_MINUTE, EVERY_HOUR}, v \in {0, 3}}
    \cup {WithStartTime(s) : s \in StartTimeInputs}
    \cup {WithWeekDay(w) : w \in IntervalInputs}
    \cup {WithDayOfMonth(d) : d \in IntervalInputs}

OptsInputs == UNION {[1..n -> OptionInputs] : n \in 0..MaxOpts}

InitNewCleaner ==
    /\ data = NewCache
    /\ now = 1
    /\ last = NoCall
    /\ pre = NewCache
    /\ ncArgs \in [scheduleType : -1..MaxScheduleTypeInput, opts : OptsInputs]
    /\ ncErr = Pending
    /\ cleaner = NilCleaner
    /\ runState = "calling"
    /\ TS = [k \in {} |-> <<>>]
    /\ ChannelTS = 0
    /\ AuxIdle

NextNewCleaner == CallNewCleaner

SpecNewCleaner == InitNewCleaner /\ [][NextNewCleaner]_vars

(***************************************************************************)
(* SpecNextRun: Run's first next run and UpdateNextRun, for validated       *)
(* schedules of the four kinds at instants of the years 2023 and 2024.      *)
(***************************************************************************)
\* the multipliers passed to WithIntervalValue: none, negative, small, and
\* the two on either side of 2^64 nanoseconds in hours
MultiplierInputs == {-1, 0, 1, 3, 5124095, 5124096}

\* the start times of the schedules that run: the README's, an hour past
\* the day, the test's malformed one, one without a colon
RunStartTimes == {Str1030, Str2400, Str1s00, Str10}

\* the days of month of the Monthly schedules that run
DayOfMonthInputs == {1, 15, 28, 29, 30, 31}

FrequentArgs ==
    {[scheduleType |-> FREQUENTLY, opts |-> <<WithIntervalValue(i, v)>>] :
        i \in {EVERY_SECOND, EVERY_MINUTE, EVERY_HOUR}, v \in MultiplierInputs}

CalendarArgs ==
    {[scheduleType |-> DAILY, opts |-> <<WithStartTime(st)>>] : st \in RunStartTimes}
    \cup {[scheduleType |-> WEEKLY, opts |-> <<WithWeekDay(w), WithStartTime(st)>>] :
            w \in SUNDAY..SATURDAY, st \in {Str1030, Str10}}
    \cup {[scheduleType |-> MONTHLY, opts |-> <<WithDayOfMonth(d), WithStartTime(st)>>] :
            d \in DayOfMonthInputs, st \in {Str1030, Str10}}

\* the months in which a schedule of the calendar runs: those of 2023, and
\* the first three of the leap year 2024
MonthInputs == {<<2023, m>> : m \in 1..12} \cup {<<2024, m>> : m \in 1..3}

\* the clock readings at which a schedule of the calendar runs: the first
\* day, day 15 and the last day of the months, at the first and the last
\* second of the day
InstantInputs ==
    {Date(ym[1], ym[2], d, tod[1], tod[2], tod[3]) :
        ym \in MonthInputs, d \in {1, 15},
        tod \in {<<0, 0, 0>>, <<23, 59, 59>>}}
    \cup {Date(ym[1], ym[2], DaysIn(ym[1], ym[2]), tod[1], tod[2], tod[3]) :
            ym \in MonthInputs, tod \in {<<0, 0, 0>>, <<23, 59, 59>>}}

\* the nanoseconds of the clock readings at which a Frequent schedule runs
NanoInputs == {0, 999999999}

InitNextRun ==
    /\ data = NewCache
    /\ last = NoCall
    /\ pre = NewCache
    /\ \/ /\ ncArgs \in FrequentArgs
          /\ now \in {Date(2024, 2, 29, 23, 59, 59), Date(2024, 12, 31, 12, 0, 0)}
          /\ nsec \in NanoInputs
       \/ /\ ncArgs \in CalendarArgs
          /\ now \in InstantInputs
          /\ nsec = 0
    /\ ncErr = NewCleaner(ncArgs.scheduleType, ncArgs.opts).err
    /\ ncErr = NoError
    /\ cleaner = NewCleaner(ncArgs.scheduleType, ncArgs.opts).cleaner
    /\ runState = "new"
    /\ TS = [k \in {} |-> <<>>]
    /\ ChannelTS = 0
    /\ gt = NoGetTime
    /\ loops = [r \in {} |-> NilCleaner]
    /\ started = <<>>
    /\ mu = Unlocked
    /\ procs = [p \in {} |-> NoCall]
    /\ SchedIdle

NextNextRun ==
    \/ Run
    \/ \E n \in TaskNames : CallUpdateNextRun(n)

SpecNextRun == InitNextRun /\ [][NextNextRun]_vars

(***************************************************************************)
(* SpecGetTime: GetTime on every string of at most MaxStartTimeLen          *)
(* characters, and on the start times of the examples.                      *)
(***************************************************************************)
MaxStartTimeLen == 3

\* the characters of the strings passed to GetTime
StartTimeChars == {"1", "0", ":", "s"}

GetTimeInputs ==
    UNION {[1..n -> StartTimeChars] : n \in 0..MaxStartTimeLen}
    \cup {Str1030, Str2400, Str1s00, Str10, StrBlank}

InitGetTime ==
    /\ data = NewCache
    /\ now = 1
    /\ last = NoCall
    /\ pre = NewCache
    /\ ncArgs \in StartedArgs
    /\ ncErr = NewCleaner(ncArgs.scheduleType, ncArgs.opts).err
    /\ cleaner = NewCleaner(ncArgs.scheduleType, ncArgs.opts).cleaner
    /\ runState = "new"
    /\ TS = [k \in {} |-> <<>>]
    /\ ChannelTS = 0
    /\ nsec = 0
    /\ gt \in [arg : GetTimeInputs, state : {"calling"}, hour : {0}, minute : {0}]
    /\ loops = [r \in {} |-> NilCleaner]
    /\ started = <<>>
    /\ mu = Unlocked
    /\ procs = [p \in {} |-> NoCall]
    /\ SchedIdle

NextGetTime == CallGetTime

SpecGetTime == InitGetTime /\ [][NextGetTime]_vars

(***************************************************************************)
(* SpecLocks: two goroutines, callers or runners, each making one call of  *)
(* the store while the clock advances.                                     *)
(***************************************************************************)
\* the stores that the calls start on
LockStores ==
    {NewCache,
     [k \in {"k1"} |-> [Key |-> k, Value |-> "v1", Expire |-> 1, Created |-> 1]],
     [k \in {"k1", "k2"} |-> [Key |-> k, Value |-> "v1",
                              Expire |-> IF k = "k1" THEN 1 ELSE 0, Created |-> 1]]}

\* the *MemData passed to Set and Replace
LockArgs == [Key : Keys, Value : {"v2"}, Expire : {0, 1}]

InitLocks ==
    /\ data \in LockStores
    /\ now = 1
    /\ last = NoCall
    /\ pre = NewCache
    /\ ncArgs \in StartedArgs
    /\ ncErr = NewCleaner(ncArgs.scheduleType, ncArgs.opts).err
    /\ cleaner = NewCleaner(ncArgs.scheduleType, ncArgs.opts).cleaner
    /\ runState = "new"
    /\ TS = [k \in {} |-> <<>>]
    /\ ChannelTS = 0
    /\ nsec = 0
    /\ gt = NoGetTime
    /\ loops = [r \in {} |-> NilCleaner]
    /\ started = <<>>
    /\ mu = Unlocked
    /\ procs = [g \in Goroutines |-> IdleProc]
    /\ SchedIdle

NextLocks ==
    \/ \E g \in Goroutines, m \in LockArgs : CallStore(g, "Set", m.Key, m)
    \/ \E g \in Goroutines, k \in Keys : CallStore(g, "Get", k, NoArg)
    \/ \E g \in Goroutines, m \in LockArgs : CallStore(g, "Replace", m.Key, m)
    \/ \E g \in Goroutines, k \in Keys : CallStore(g, "Delete", k, NoArg)
    \/ \E g \in Goroutines : CallStore(g, "ClearAll", "", NoArg)
    \/ \E g \in Goroutines : CallStore(g, "CleanExpired", "", NoArg)
    \/ \E g \in Goroutines : Lock(g)
    \/ \E g \in Goroutines : RLock(g)
    \/ \E g \in Goroutines : SetCheck(g)
    \/ \E g \in Goroutines : SetStore(g)
    \/ \E g \in Goroutines : GetRead(g)
    \/ \E g \in Goroutines : ReplaceCheck(g)
    \/ \E g \in Goroutines : ReplaceValue(g)
    \/ \E g \in Goroutines : ReplaceExpire(g)
    \/ \E g \in Goroutines : DeleteKey(g)
    \/ \E g \in Goroutines : ClearAllMake(g)
    \/ \E g \in Goroutines : CleanExpiredRange(g)
    \/ \E g \in Goroutines : CleanExpiredDelete(g)
    \/ \E g \in Goroutines : Unlock(g)
    \/ Tick

SpecLocks == InitLocks /\ [][NextLocks]_vars

(***************************************************************************)
(* The scheduler, statement by statement: the goroutine of every Run call  *)
(* and the goroutines that its loop starts with "go execRunner(c, h)".     *)
(* A goroutine that calls Lock or RLock waits at that statement until the  *)
(* mutex can be taken; held lists the mutexes it holds, in the order in    *)
(* which it took them.                                                     *)
(***************************************************************************)
\* the clock of the statement-level model runs from 1 to MaxSchedTime
MaxSchedTime == 2

\* the goroutines that run execRunner, each started by the loop of a cleaner
Execs == {"e1", "e2"}

\* the names of the mutexes: TS.mu, Cache.mu and the mu of every cleaner
RegistryLock == "TS"
StoreLock == "store"

\* the local variables of a goroutine of the scheduler at position pc,
\* working for cleaner c
Goroutine(pc, c) ==
    [pc |-> pc, c |-> c, held |-> <<>>, key |-> "", at |-> 0, e |-> <<>>,
     visited |-> {}, listed |-> {}]

\* the variables that no statement of the scheduler writes
callerVars == <<last, pre, ncArgs, ncErr, cleaner, runState, ChannelTS, nsec, gt>>

\* Run, case FREQUENTLY..MONTHLY: c.mu.Lock() of CleanFrequently, CleanDaily,
\* CleanWeekly or CleanMonthly returns
RunLock(r) ==
    /\ ~crashed
    /\ gos[r].pc = "new"
    /\ CanLock(locks[r])
    /\ locks' = [locks EXCEPT ![r].writer = r]
    /\ gos' = [gos EXCEPT ![r].pc = "clean", ![r].held = Append(@, r)]
    /\ UNCHANGED <<data, now, TS, loops, started, mu, procs, fired, crashed, callerVars>>

\* the first next run is computed, and the deferred c.mu.Unlock() runs
RunClean(r) ==
    /\ ~crashed
    /\ gos[r].pc = "clean"
    /\ loops' = [loops EXCEPT ![r].cleaner = FirstNextRun(@, now, nsec)]
    /\ locks' = [locks EXCEPT ![r].writer = "none"]
    /\ gos' = [gos EXCEPT ![r].pc = "add", ![r].held = SubSeq(@, 1, Len(@) - 1)]
    /\ UNCHANGED <<data, now, TS, started, mu, procs, fired, crashed, callerVars>>

\* the keys that rand.Read can produce next, up to the names of the keys:
\* one of those it has produced, or one that it has not (named "t1" before
\* "t2")
NextTaskNames ==
    LET produced == {gos[r].key : r \in Cleaners} \ {""}
    IN  produced \cup (IF "t1" \notin produced THEN {"t1"} ELSE TaskNames \ produced)

\* AddCleaner: c.mu.Lock() returns and the key is generated
AddLock(r) ==
    /\ ~crashed
    /\ gos[r].pc = "add"
    /\ CanLock(locks[r])
    /\ locks' = [locks EXCEPT ![r].writer = r]
    /\ \E key \in NextTaskNames :
          gos' = [gos EXCEPT ![r].pc = "get", ![r].key = key, ![r].held = Append(@, r)]
    /\ UNCHANGED <<data, now, TS, loops, started, mu, procs, fired, crashed, callerVars>>

\* AddCleaner, in TS.GetCleanerSchedule(key): s.mu.RLock() returns
AddGetRLock(r) ==
    /\ ~crashed
    /\ gos[r].pc = "get"
    /\ CanRLock(locks[RegistryLock])
    /\ locks' = [locks EXCEPT ![RegistryLock].readers = @ \cup {r}]
    /\ gos' = [gos EXCEPT ![r].pc = "got", ![r].held = Append(@, RegistryLock)]
    /\ UNCHANGED <<data, now, TS, loops, started, mu, procs, fired, crashed, callerVars>>

\* AddCleaner: GetCleanerSchedule reads the map and its deferred RUnlock runs;
\* with the key taken AddCleaner returns, otherwise c.TaskName = key
AddGot(r) ==
    /\ ~crashed
    /\ gos[r].pc = "got"
    /\ locks' = [locks EXCEPT ![RegistryLock].readers = @ \ {r}]
    /\ IF GetCleanerSchedule(TS, gos[r].key).err = NoError
       THEN /\ gos' = [gos EXCEPT ![r].pc = "added",
                                  ![r].held = SubSeq(@, 1, Len(@) - 1)]
            /\ UNCHANGED loops
       ELSE /\ gos' = [gos EXCEPT ![r].pc = "store",
                                  ![r].held = SubSeq(@, 1, Len(@) - 1)]
            /\ loops' = [loops EXCEPT ![r].cleaner.TaskName = gos[r].key]
    /\ UNCHANGED <<data, now, TS, started, mu, procs, fired, crashed, callerVars>>

\* AddCleaner: TS.mu.Lock() returns
AddStoreLock(r) ==
    /\ ~crashed
    /\ gos[r].pc = "store"
    /\ CanLock(locks[RegistryLock])
    /\ locks' = [locks EXCEPT ![RegistryLock].writer = r]
    /\ gos' = [gos EXCEPT ![r].pc = "append", ![r].held = Append(@, RegistryLock)]
    /\ UNCHANGED <<data, now, TS, loops, started, mu, procs, fired, crashed, callerVars>>

\* AddCleaner: TS.CleanerList[key] = append(TS.CleanerList[key], *c), then
\* TS.mu.Unlock()
AddAppend(r) ==
    /\ ~crashed
    /\ gos[r].pc = "append"
    /\ LET key == gos[r].key
           old == IF key \in DOMAIN TS THEN TS[key] ELSE <<>>
       IN  TS' = [k \in DOMAIN TS \cup {key} |->
                     IF k = key THEN Append(old, loops[r].cleaner) ELSE TS[k]]
    /\ locks' = [locks EXCEPT ![RegistryLock].writer = "none"]
    /\ gos' = [gos EXCEPT ![r].pc = "added", ![r].held = SubSeq(@, 1, Len(@) - 1)]
    /\ UNCHANGED <<data, now, loops, started, mu, procs, fired, crashed, callerVars>>

\* the deferred c.mu.Unlock() of AddCleaner is skipped
AddReturn_KeepLock(r) ==
    /\ ~crashed
    /\ gos[r].pc = "added"
    /\ gos' = [gos EXCEPT ![r].pc = "select"]
    /\ loops' = [loops EXCEPT ![r].state = "polling"]
    /\ started' = Append(started, r)
    /\ UNCHANGED <<data, now, TS, mu, procs, locks, fired, crashed, callerVars>>

\* AddCleaner returns, its deferred c.mu.Unlock() runs, and Run enters its loop
AddReturn(r) ==
    /\ ~crashed
    /\ gos[r].pc = "added"
    /\ locks' = [locks EXCEPT ![r].writer = "none"]
    /\ gos' = [gos EXCEPT ![r].pc = "select", ![r].held = SubSeq(@, 1, Len(@) - 1)]
    /\ loops' = [loops EXCEPT ![r].state = "polling"]
    /\ started' = Append(started, r)
    /\ UNCHANGED <<data, now, TS, mu, procs, fired, crashed, callerVars>>

\* the goroutines of execRunner that start before goroutine e does
Before(e) == IF e = "e1" THEN {} ELSE {"e1"}

\* Run's loop, case <-time.After(500 * time.Millisecond): go execRunner(c, h)
\* starts the next goroutine, e, whether or not the goroutine of an earlier
\* turn has finished
GoExecRunner(r, e) ==
    /\ ~crashed
    /\ gos[r].pc = "select"
    /\ gos[e].pc = "idle"
    /\ \A f \in Before(e) : gos[f].pc # "idle"
    /\ gos' = [gos EXCEPT ![e] = Goroutine("list", r)]
    /\ UNCHANGED <<data, now, TS, loops, started, mu, procs, locks, fired, crashed, callerVars>>

\* execRunner, in GetAllCleanerSchedules: TS.mu.Lock() returns
ListLock(e) ==
    /\ ~crashed
    /\ gos[e].pc = "list"
    /\ CanLock(locks[RegistryLock])
    /\ locks' = [locks EXCEPT ![RegistryLock].writer = e]
    /\ gos' = [gos EXCEPT ![e].pc = "listed", ![e].held = Append(@, RegistryLock)]
    /\ UNCHANGED <<data, now, TS, loops, started, mu, procs, fired, crashed, callerVars>>

\* GetAllCleanerSchedules returns TS.CleanerList, the map of the registry
\* itself, and its deferred TS.mu.Unlock() runs; the range statement starts
\* on the keys that the map has now
ListReturn(e) ==
    /\ ~crashed
    /\ gos[e].pc = "listed"
    /\ locks' = [locks EXCEPT ![RegistryLock].writer = "none"]
    /\ gos' = [gos EXCEPT ![e].pc = "range", ![e].listed = DOMAIN TS,
                          ![e].held = SubSeq(@, 1, Len(@) - 1)]
    /\ UNCHANGED <<data, now, TS, loops, started, mu, procs, fired, crashed, callerVars>>

\* execRunner, for _, e := range ...: the range statement produces a key that
\* it has not produced yet, with the slice that the map holds under it now
\* (a key added since the range started may be produced or not)
RangeNext(e) ==
    /\ ~crashed
    /\ gos[e].pc = "range"
    /\ \E k \in DOMAIN TS \ gos[e].visited :
          gos' = [gos EXCEPT ![e].pc = "inner", ![e].e = TS[k],
                             ![e].visited = @ \cup {k}]
    /\ UNCHANGED <<data, now, TS, loops, started, mu, procs, locks, fired, crashed, callerVars>>

\* execRunner: the range statement ends and the goroutine with it
RangeEnd(e) ==
    /\ ~crashed
    /\ gos[e].pc = "range"
    /\ gos[e].listed \subseteq gos[e].visited
    /\ gos' = [gos EXCEPT ![e] = Goroutine("done", gos[e].c)]
    /\ UNCHANGED <<data, now, TS, loops, started, mu, procs, locks, fired, crashed, callerVars>>

\* where execRunner goes on when the slice e has the cleaners rest left: in
\* the loop over the slice, or in the range statement over the map
NextCleaner(rest) == IF rest = <<>> THEN "range" ELSE "inner"

\* execRunner, for _, s := range e: if s.NextRun == time.Now().Unix()
DueCheck(e) ==
    /\ ~crashed
    /\ gos[e].pc = "inner"
    /\ LET s == Head(gos[e].e)
       IN  IF s.NextRun = now
           THEN gos' = [gos EXCEPT ![e].pc = "update", ![e].key = s.TaskName,
                                   ![e].at = s.NextRun, ![e].e = Tail(@)]
           ELSE gos' = [gos EXCEPT ![e].pc = NextCleaner(Tail(gos[e].e)),
                                   ![e].e = Tail(@)]
    /\ UNCHANGED <<data, now, TS, loops, started, mu, procs, locks, fired, crashed, callerVars>>

\* c.UpdateNextRun(s.TaskName): c.mu.Lock() returns and the next run and the
\* remarks of c are computed
UpdateLock(e) ==
    /\ ~crashed
    /\ gos[e].pc = "update"
    /\ LET c == gos[e].c
       IN  /\ CanLock(locks[c])
           /\ locks' = [locks EXCEPT ![c].writer = e]
           /\ loops' = [loops EXCEPT ![c].cleaner = UpdateNextRun(@, gos[e].key, now, nsec)]
           /\ gos' = [gos EXCEPT ![e].pc = "updated", ![e].held = Append(@, c)]
    /\ fired' = fired \cup {<<gos[e].key, gos[e].at, e>>}
    /\ UNCHANGED <<data, now, TS, started, mu, procs, crashed, callerVars>>

\* UpdateNextRun, in UpdateCleaner(c, taskName): TS.mu.Lock() returns
UpdateStoreLock(e) ==
    /\ ~crashed
    /\ gos[e].pc = "updated"
    /\ CanLock(locks[RegistryLock])
    /\ locks' = [locks EXCEPT ![RegistryLock].writer = e]
    /\ gos' = [gos EXCEPT ![e].pc = "assign", ![e].held = Append(@, RegistryLock)]
    /\ UNCHANGED <<data, now, TS, loops, started, mu, procs, fired, crashed, callerVars>>

\* UpdateCleaner: TS.CleanerList[taskName] = []Cleaner{*c}, then TS.mu.Unlock()
UpdateAssign(e) ==
    /\ ~crashed
    /\ gos[e].pc = "assign"
    /\ TS' = UpdateCleaner(TS, loops[gos[e].c].cleaner, gos[e].key)
    /\ locks' = [locks EXCEPT ![RegistryLock].writer = "none"]
    /\ gos' = [gos EXCEPT ![e].pc = "return", ![e].held = SubSeq(@, 1, Len(@) - 1)]
    /\ UNCHANGED <<data, now, loops, started, mu, procs, fired, crashed, callerVars>>

\* the mu of the cleaner is still held when UpdateNextRun returns
UpdateReturn_KeepLock(e) ==
    /\ ~crashed
    /\ gos[e].pc = "return"
    /\ gos' = [gos EXCEPT ![e].pc = "sweep"]
    /\ UNCHANGED <<data, now, TS, loops, started, mu, procs, locks, fired, crashed, callerVars>>

\* UpdateNextRun returns and its deferred c.mu.Unlock() runs
UpdateReturn(e) ==
    /\ ~crashed
    /\ gos[e].pc = "return"
    /\ locks' = [locks EXCEPT ![gos[e].c].writer = "none"]
    /\ gos' = [gos EXCEPT ![e].pc = "sweep", ![e].held = SubSeq(@, 1, Len(@) - 1)]
    /\ UNCHANGED <<data, now, TS, loops, started, mu, procs, fired, crashed, callerVars>>

\* execRunner, in CleanExpired(h): c.mu.Lock() of the store returns
SweepLock(e) ==
    /\ ~crashed
    /\ gos[e].pc = "sweep"
    /\ CanLock(mu)
    /\ mu' = [mu EXCEPT !.writer = e]
    /\ gos' = [gos EXCEPT ![e].pc = "sweeping", ![e].held = Append(@, StoreLock)]
    /\ UNCHANGED <<data, now, TS, loops, started, procs, locks, fired, crashed, callerVars>>

\* CleanExpired deletes the expired entries and its deferred Unlock runs
Sweep(e) ==
    /\ ~crashed
    /\ gos[e].pc = "sweeping"
    /\ data' = AfterCleanExpired(data, now)
    /\ mu' = [mu EXCEPT !.writer = "none"]
    /\ gos' = [gos EXCEPT ![e].pc = NextCleaner(gos[e].e),
                          ![e].held = SubSeq(@, 1, Len(@) - 1)]
    /\ UNCHANGED <<now, TS, loops, started, procs, locks, fired, crashed, callerVars>>

\* a caller of the store calls Get(key) and comes to c.mu.RLock()
GetCall(g) ==
    /\ ~crashed
    /\ gos[g].pc = "idle"
    /\ gos' = [gos EXCEPT ![g].pc = "rlock"]
    /\ UNCHANGED <<data, now, TS, loops, started, mu, procs, locks, fired, crashed, callerVars>>

\* Get: c.mu.RLock() returns
GetRLock(g) ==
    /\ ~crashed
    /\ gos[g].pc = "rlock"
    /\ CanRLock(mu)
    /\ mu' = [mu EXCEPT !.readers = @ \cup {g}]
    /\ gos' = [gos EXCEPT ![g].pc = "read", ![g].held = Append(@, StoreLock)]
    /\ UNCHANGED <<data, now, TS, loops, started, procs, locks, fired, crashed, callerVars>>

\* Get reads the entry and returns, and its deferred c.mu.RUnlock() runs
GetReturn(g) ==
    /\ ~crashed
    /\ gos[g].pc = "read"
    /\ mu' = [mu EXCEPT !.readers = @ \ {g}]
    /\ gos' = [gos EXCEPT ![g].pc = "idle", ![g].held = SubSeq(@, 1, Len(@) - 1)]
    /\ UNCHANGED <<data, now, TS, loops, started, procs, locks, fired, crashed, callerVars>>

\* the goroutines that are about to assign to the map of the registry
Writing == {g \in DOMAIN gos : gos[g].pc \in {"append", "assign"}}

\* the goroutines whose range statement over the map of the registry is
\* under way
Ranging == {g \in DOMAIN gos : gos[g].pc \in {"range", "inner", "update", "updated",
                                            "assign", "return", "sweep", "sweeping"}}

\* the Go runtime finds the map being written by one goroutine while the
\* range statement of another goroutine asks for its next key, and ends the
\* program with "fatal error: concurrent map iteration and map write"
Throw ==
    /\ ~crashed
    /\ \E g \in Writing : \E h \in DOMAIN gos \ {g} : gos[h].pc = "range"
    /\ crashed' = TRUE
    /\ UNCHANGED <<data, now, TS, loops, started, mu, procs, locks, gos, fired, callerVars>>

\* the wall clock advances by one second while the goroutines run
TickSched ==
    /\ ~crashed
    /\ now < MaxSchedTime
    /\ now' = now + 1
    /\ UNCHANGED <<data, TS, loops, started, mu, procs, schedVars, callerVars>>

(***************************************************************************)
(* SpecLoops: two cleaners with different schedules, Run on one store, and *)
(* a caller that signals on ChannelTS.                                     *)
(***************************************************************************)
\* the arguments of the NewCleaner calls: every second, every two seconds
LoopArgs ==
    [r \in Cleaners |->
        IF r = "c1"
        THEN [scheduleType |-> FREQUENTLY, opts |-> <<WithInterval(EVERY_SECOND)>>]
        ELSE [scheduleType |-> FREQUENTLY, opts |-> <<WithIntervalValue(EVERY_SECOND, 2)>>]]

\* the store that the loops sweep: one entry that expires, one that does not
LoopStore ==
    [k \in {"k1", "k2"} |-> [Key |-> k, Value |-> "v1",
                             Expire |-> IF k = "k1" THEN 1 ELSE 0, Created |-> 1]]

\* the task names that a caller looks up: those rand.Read can produce and
\* one that it cannot
LookupKeys == TaskNames \cup {""}

InitLoops ==
    /\ data = LoopStore
    /\ now = 1
    /\ last = NoCall
    /\ pre = NewCache
    /\ ncArgs \in StartedArgs
    /\ ncErr = NewCleaner(ncArgs.scheduleType, ncArgs.opts).err
    /\ cleaner = NewCleaner(ncArgs.scheduleType, ncArgs.opts).cleaner
    /\ runState = "new"
    /\ TS = [k \in {} |-> <<>>]
    /\ ChannelTS = 0
    /\ nsec = 0
    /\ gt = NoGetTime
    /\ loops = [r \in Cleaners |->
                  [cleaner |-> NewCleaner(LoopArgs[r].scheduleType, LoopArgs[r].opts).cleaner,
                   state |-> "new"]]
    /\ started = <<>>
    /\ mu = Unlocked
    /\ procs = [p \in {} |-> NoCall]
    /\ SchedIdle

NextLoops ==
    \/ \E r \in Cleaners : RunLoop(r)
    \/ \E r \in Cleaners : PollLoop(r)
    \/ \E r \in Cleaners : StopLoop(r)
    \/ \E key \in LookupKeys : Lookup(key)
    \/ Signal
    \/ TickLoops

SpecLoops == InitLoops /\ [][NextLoops]_vars

(***************************************************************************)
(* SpecSched: the two cleaners of SpecLoops, Run on one store, with the    *)
(* goroutines of their loops interleaved statement by statement, and a     *)
(* caller of the store's Get.                                              *)
(***************************************************************************)
\* the goroutine that calls the store
Callers == {"g1"}

InitSched ==
    /\ data = LoopStore
    /\ now = 1
    /\ last = NoCall
    /\ pre = NewCache
    /\ ncArgs \in StartedArgs
    /\ ncErr = NewCleaner(ncArgs.scheduleType, ncArgs.opts).err
    /\ cleaner = NewCleaner(ncArgs.scheduleType, ncArgs.opts).cleaner
    /\ runState = "new"
    /\ TS = [k \in {} |-> <<>>]
    /\ ChannelTS = 0
    /\ nsec = 0
    /\ gt = NoGetTime
    /\ loops = [r \in Cleaners |->
                  [cleaner |-> NewCleaner(LoopArgs[r].scheduleType, LoopArgs[r].opts).cleaner,
                   state |-> "new"]]
    /\ started = <<>>
    /\ mu = Unlocked
    /\ procs = [p \in {} |-> NoCall]
    /\ locks = [l \in {RegistryLock} \cup Cleaners |-> Unlocked]
    /\ gos = [g \in Cleaners \cup Execs \cup Callers |->
                 IF g \in Cleaners THEN Goroutine("new", g) ELSE Goroutine("idle", "")]
    /\ fired = {}
    /\ crashed = FALSE

NextSched ==
    \/ \E r \in Cleaners : RunLock(r)
    \/ \E r \in Cleaners : RunClean(r)
    \/ \E r \in Cleaners : AddLock(r)
    \/ \E r \in Cleaners : AddGetRLock(r)
    \/ \E r \in Cleaners : AddGot(r)
    \/ \E r \in Cleaners : AddStoreLock(r)
    \/ \E r \in Cleaners : AddAppend(r)
    \/ \E r \in Cleaners : AddReturn(r)
    \/ \E r \in Cleaners, e \in Execs : GoExecRunner(r, e)
    \/ \E e \in Execs : ListLock(e)
    \/ \E e \in Execs : ListReturn(e)
    \/ \E e \in Execs : RangeNext(e)
    \/ \E e \in Execs : RangeEnd(e)
    \/ \E e \in Execs : DueCheck(e)
    \/ \E e \in Execs : UpdateLock(e)
    \/ \E e \in Execs : UpdateStoreLock(e)
    \/ \E e \in Execs : UpdateAssign(e)
    \/ \E e \in Execs : UpdateReturn(e)
    \/ \E e \in Execs : SweepLock(e)
    \/ \E e \in Execs : Sweep(e)
    \/ \E g \in Callers : GetCall(g)
    \/ \E g \in Callers : GetRLock(g)
    \/ \E g \in Callers : GetReturn(g)
    \/ Throw
    \/ TickSched

SpecSched == InitSched /\ [][NextSched]_vars

(***************************************************************************)
(* Properties of the store.                                                *)
(***************************************************************************)
\* what the claims call an entry whose expiresAt is present and in the past
InThePast(m, t) == m.Expire # 0 /\ m.Expire < t

\* the step is a call of op
IsCall(op) == last'.op = op

\* the step is a Get of the key of the call made just before it
GetFollows(op) ==
    /\ last.op = op
    /\ last'.op = "Get"
    /\ last'.key = last.key

\* C1 as stated: Set on a key that is not in the store succeeds, whatever the
\* value and the expiry argument, and a Get of the key issued immediately
\* afterwards returns (v, found = true).
C1_SetThenGetAnyExpiry ==
    [][/\ (IsCall("Set") /\ last'.key \notin DOMAIN data) => last'.err = NoError
       /\ (GetFollows("Set") /\ last.err = NoError) =>
              (last'.found /\ last'.ret = last.m.Value)]_vars

\* C1 amended: Set on a key that is not in the store succeeds, whatever the
\* value and the expiry argument, and stores the entry; a Get of the key issued
\* immediately afterwards returns (v, found = true) when the expiry argument
\* is 0 or not earlier than the current time, and (nil, false) otherwise.
C1_SetThenGet ==
    [][/\ (IsCall("Set") /\ last'.key \notin DOMAIN data) =>
              /\ last'.err = NoError
              /\ last'.key \in DOMAIN data'
              /\ data'[last'.key].Value = last'.m.Value
              /\ data'[last'.key].Expire = last'.m.Expire
       /\ (GetFollows("Set") /\ last.err = NoError) =>
              IF last.m.Expire = 0 \/ last.m.Expire >= now
              THEN last'.found /\ last'.ret = last.m.Value
              ELSE ~last'.found /\ last'.ret = Nil]_vars

\* C1 witness: Set has just stored a key that was not in the store, with a
\* timestamp expiry that is not in the past, and Get finds it
C1_Witness ==
    /\ last.op = "Set"
    /\ last.err = NoError
    /\ last.key \notin DOMAIN pre
    /\ last.m.Expire >= now
    /\ GetRet(data, last.key, now) = <<last.m.Value, TRUE>>

\* C2: Set on a key that is in the map fails with the duplicate-key error and
\* leaves the store as it was, whether the entry is live or expired and not
\* yet swept.
C2_DuplicateSet ==
    (last.op = "Set" /\ last.key \in DOMAIN pre) =>
        /\ last.err = ErrKeyExists
        /\ data = pre

\* C2 witness: a Set on an expired entry that has not been swept has failed
C2_Witness ==
    /\ last.op = "Set"
    /\ last.key \in DOMAIN pre
    /\ InThePast(pre[last.key], now)
    /\ last.err = ErrKeyExists
    /\ pre[last.key].Value # last.m.Value

\* C3: lazy expiration. In every reachable state Get on a key whose expiresAt
\* is present and in the past returns (nil, false), swept or not, and an entry
\* with expiresAt 0 is always found; the Get that was last called returned so.
C3_LazyExpiration ==
    /\ \A k \in Keys :
          /\ (k \in DOMAIN data /\ InThePast(data[k], now)) =>
                 GetRet(data, k, now) = <<Nil, FALSE>>
          /\ (k \in DOMAIN data /\ data[k].Expire = 0) =>
                 GetRet(data, k, now) = <<data[k].Value, TRUE>>
    /\ last.op = "Get" =>
          /\ (last.key \in DOMAIN pre /\ InThePast(pre[last.key], now)) =>
                 (~last.found /\ last.ret = Nil)
          /\ (last.key \in DOMAIN pre /\ pre[last.key].Expire = 0) =>
                 (last.found /\ last.ret = pre[last.key].Value)

\* C3 witness: Get has returned not found for an expired entry still in the map,
\* while a never-expiring entry created before it is in the map too
C3_Witness ==
    /\ last.op = "Get"
    /\ last.key \in DOMAIN data
    /\ InThePast(data[last.key], now)
    /\ ~last.found
    /\ \E k \in DOMAIN data : data[k].Expire = 0 /\ data[k].Created < now

\* C4: Replace fails with the not-found error when the key is absent or is
\* present but expired, and leaves the store as it was.
C4_ReplaceNotFound ==
    (/\ last.op = "Replace"
     /\ \/ last.key \notin DOMAIN pre
        \/ InThePast(pre[last.key], now)) =>
        /\ last.err = ErrKeyNotFound
        /\ data = pre

\* C4 witness: a Replace on an expired entry that has not been swept has failed
C4_Witness ==
    /\ last.op = "Replace"
    /\ last.key \in DOMAIN pre
    /\ InThePast(pre[last.key], now)
    /\ last.err = ErrKeyNotFound
    /\ pre[last.key].Value # last.m.Value

\* C5: a Replace on a present key that is not expired succeeds and overwrites
\* only the entry's Value and Expire: its Key and Created stay (also when m
\* carries another key), every other entry is unchanged, and a Get issued
\* immediately afterwards returns the new value when the new Expire is not in
\* the past.
C5_ReplaceOverwrites ==
    [][/\ (/\ IsCall("Replace")
           /\ last'.key \in DOMAIN data
           /\ ~InThePast(data[last'.key], now)) =>
              /\ last'.err = NoError
              /\ DOMAIN data' = DOMAIN data
              /\ data'[last'.key] = [Key |-> last'.key,
                                     Value |-> last'.m.Value,
                                     Expire |-> last'.m.Expire,
                                     Created |-> data[last'.key].Created]
              /\ \A k \in DOMAIN data \ {last'.key} : data'[k] = data[k]
       /\ (/\ GetFollows("Replace")
           /\ last.err = NoError
           /\ (last.m.Expire = 0 \/ last.m.Expire >= now)) =>
              (last'.found /\ last'.ret = last.m.Value)]_vars

\* C5 witness: a Replace carrying another key has succeeded on an entry created
\* earlier, changing its value, with another entry in the map
C5_Witness ==
    /\ last.op = "Replace"
    /\ last.err = NoError
    /\ last.m.Key # last.key
    /\ pre[last.key].Value # last.m.Value
    /\ pre[last.key].Expire # last.m.Expire
    /\ data[last.key].Created < now
    /\ DOMAIN data = Keys

\* C6: Delete(k) removes k and nothing else and reports no error; on an absent
\* key it leaves the store unchanged; a second Delete(k) changes nothing; a Get
\* of k issued immediately afterwards returns (nil, false) and a Set of k
\* issued immediately afterwards succeeds.
C6_Delete ==
    [][/\ IsCall("Delete") =>
              /\ last'.err = NoError
              /\ DOMAIN data' = DOMAIN data \ {last'.key}
              /\ \A k \in DOMAIN data' : data'[k] = data[k]
              /\ last'.key \notin DOMAIN data => data' = data
              /\ AfterDelete(data', last'.key) = data'
       /\ GetFollows("Delete") => (~last'.found /\ last'.ret = Nil)
       /\ (last.op = "Delete" /\ last'.op = "Set" /\ last'.key = last.key) =>
              (last'.err = NoError /\ last'.key \in DOMAIN data')]_vars

\* C6 witness: Delete has removed a key while another key stays in the map
C6_Witness ==
    /\ last.op = "Delete"
    /\ last.key \in DOMAIN pre
    /\ last.key \notin DOMAIN data
    /\ data # NewCache

\* C7: after ClearAll the store is empty, Get returns (nil, false) for every
\* key, also the Get issued immediately afterwards, and ClearAll again leaves
\* the store empty.
C7_ClearAll ==
    [][/\ IsCall("ClearAll") =>
              /\ data' = NewCache
              /\ \A k \in Keys : GetRet(data', k, now') = <<Nil, FALSE>>
              /\ AfterClearAll(data') = NewCache
       /\ (last.op = "ClearAll" /\ last'.op = "Get") =>
              (~last'.found /\ last'.ret = Nil)]_vars

\* C7 witness: ClearAll has emptied a store that held an expired entry and an
\* entry that was not expired
C7_Witness ==
    /\ last.op = "ClearAll"
    /\ data = NewCache
    /\ \E k \in DOMAIN pre : InThePast(pre[k], now)
    /\ \E k \in DOMAIN pre : ~InThePast(pre[k], now)

\* the last call was a sweep: CleanExpired, or an execRunner that found a due task
Swept ==
    \/ last.op = "CleanExpired"
    \/ last.op = "execRunner" /\ last.found

\* C8 as stated: immediately after a sweep no entry whose expiresAt is present
\* and less than or equal to the current time remains in the map.
C8_SweepAtOrBefore ==
    Swept => \A k \in DOMAIN data : ~(data[k].Expire # 0 /\ data[k].Expire <= now)

\* C8 amended: a sweep removes every entry whose expiresAt is present and
\* less than the current time, so that none remains, and keeps an entry whose
\* expiresAt equals the current second.
C8_Sweep ==
    Swept =>
        /\ \A k \in DOMAIN data : ~InThePast(data[k], now)
        /\ \A k \in DOMAIN pre :
              (pre[k].Expire = now) => (k \in DOMAIN data /\ data[k] = pre[k])

\* C8 witness: a sweep has removed an entry and kept one that expires this second
C8_Witness ==
    /\ Swept
    /\ \E k \in DOMAIN pre : InThePast(pre[k], now) /\ k \notin DOMAIN data
    /\ \E k \in DOMAIN data : data[k].Expire = now

\* C9: an entry leaves the map only by Delete of its key, by ClearAll, or by a
\* sweep made while it is expired; Get, a failed Set, a failed Replace, the
\* clock and every cleaner action other than the sweep leave the map as it
\* was; a sweep neither removes nor alters an entry that is not expired.
C9_EvictionOnly ==
    /\ \A k \in DOMAIN pre \ DOMAIN data :
          \/ last.op = "Delete" /\ last.key = k
          \/ last.op = "ClearAll"
          \/ Swept /\ InThePast(pre[k], now)
    /\ (\/ last.op \in {"Get", "Run", "Tick", "none"}
        \/ last.op = "Set" /\ last.err # NoError
        \/ last.op = "Replace" /\ last.err # NoError
        \/ last.op = "execRunner" /\ ~last.found) => data = pre
    /\ Swept =>
          \A k \in DOMAIN pre :
              ~InThePast(pre[k], now) => (k \in DOMAIN data /\ data[k] = pre[k])

\* C9 witness: the cleaner's sweep has removed an expired entry and kept a
\* never-expiring entry and an entry that expires later
C9_Witness ==
    /\ last.op = "execRunner"
    /\ last.found
    /\ \E k \in DOMAIN pre : InThePast(pre[k], now) /\ k \notin DOMAIN data
    /\ \E k \in DOMAIN data : data[k].Expire = 0 \/ data[k].Expire > now

(***************************************************************************)
(* Properties of the store under concurrency.                              *)
(***************************************************************************)
\* the call of a goroutine has done, on the map as it was when the goroutine
\* took the lock, what the call does when it runs alone
RanAlone(p) ==
    CASE p.op = "Set" ->
            /\ data = SetResult(p.snap, p.m, p.t).data
            /\ p.err = SetResult(p.snap, p.m, p.t).err
      [] p.op = "Get" ->
            /\ data = p.snap
            /\ <<p.ret, p.found>> = GetRet(p.snap, p.key, p.t)
      [] p.op = "Replace" ->
            /\ data = ReplaceResult(p.snap, p.key, p.m, p.t).data
            /\ p.err = ReplaceResult(p.snap, p.key, p.m, p.t).err
      [] p.op = "Delete" -> data = AfterDelete(p.snap, p.key)
      [] p.op = "ClearAll" -> data = AfterClearAll(p.snap)
      [] p.op = "CleanExpired" ->
            /\ DOMAIN data \subseteq DOMAIN p.snap
            /\ \A k \in DOMAIN p.snap :
                  IF k \in DOMAIN data
                  THEN data[k] = p.snap[k] /\ ~IsExpired(p.snap[k], p.t0)
                  ELSE IsExpired(p.snap[k], now)
            /\ p.t0 = now => data = AfterCleanExpired(p.snap, now)

\* C17: for every interleaving of two goroutines calling Set, Get, Replace,
\* Delete, ClearAll and CleanExpired, each call, when it is about to unlock,
\* has returned and left the map as the same call run alone on the map at the
\* moment it took the lock; of two Set calls on a key absent at the first
\* lock exactly one succeeds; and a sweep never removes an entry that is not
\* expired at the moment it is removed.
C17_Atomic ==
    /\ \A g \in Goroutines : procs[g].pc = "unlock" => RanAlone(procs[g])
    /\ \A g \in Goroutines : ~procs[g].live
    /\ \A g, h \in Goroutines :
          (/\ g # h
           /\ procs[g].op = "Set" /\ procs[h].op = "Set"
           /\ procs[g].key = procs[h].key
           /\ procs[g].pc = "done" /\ procs[h].pc = "done"
           /\ procs[g].key \notin DOMAIN procs[g].snap)
          => (procs[g].err = NoError /\ procs[h].err = ErrKeyExists)

\* C17 witness: two Set calls on the same absent key were in progress at the
\* same time, and one has succeeded and the other has failed
C17_Witness ==
    /\ procs["g1"].op = "Set" /\ procs["g2"].op = "Set"
    /\ procs["g1"].key = procs["g2"].key
    /\ procs["g2"].during = {"g1"}
    /\ procs["g1"].pc = "done" /\ procs["g2"].pc = "done"
    /\ procs["g2"].err = NoError /\ procs["g1"].err = ErrKeyExists

(***************************************************************************)
(* Properties of NewCleaner.                                               *)
(***************************************************************************)
\* the schedule that the options of the call result in
ResultingSchedule ==
    ApplyOptions(CleanerSchedule(ncArgs.scheduleType, 0, 0, StrEmpty), ncArgs.opts)

\* NewCleaner has returned
Returned == runState \in {"new", "failed"}

\* a start time that holds white space only
Blank(s) == \A i \in 1..Len(s) : s[i] \in {" ", "\t", "\n", "\r"}

\* the intervals of a schedule type; Daily does not use the interval
IntervalInRange(cs) ==
    CASE cs.ScheduleType = FREQUENTLY -> cs.Interval \in {EVERY_SECOND, EVERY_MINUTE, EVERY_HOUR}
      [] cs.ScheduleType = DAILY -> TRUE
      [] cs.ScheduleType = WEEKLY -> cs.Interval \in 1..7
      [] cs.ScheduleType = MONTHLY -> cs.Interval \in 1..31

\* a valid schedule, a start time being missing when missing(startTime)
Valid(cs, missing(_)) ==
    /\ cs.ScheduleType \in {FREQUENTLY, DAILY, WEEKLY, MONTHLY}
    /\ IntervalInRange(cs)
    /\ IF cs.ScheduleType = FREQUENTLY
       THEN missing(cs.StartTime)
       ELSE ~missing(cs.StartTime)

\* the errors that the defects of a schedule call for
ErrorsCalledFor(cs, missing(_)) ==
    IF cs.ScheduleType \notin {FREQUENTLY, DAILY, WEEKLY, MONTHLY}
    THEN {ErrInvalidScheduleType}
    ELSE (IF cs.ScheduleType = FREQUENTLY /\ ~missing(cs.StartTime)
          THEN {ErrStartTimeNotAllowed} ELSE {})
         \cup (IF cs.ScheduleType # FREQUENTLY /\ missing(cs.StartTime)
               THEN {ErrInvalidStartTime} ELSE {})
         \cup (IF ~IntervalInRange(cs) THEN {ErrInvalidInterval} ELSE {})

\* NewCleaner returns a cleaner exactly for the valid schedules and otherwise
\* an error that a defect of the schedule calls for
ValidatedAs(missing(_)) ==
    Returned =>
        /\ (ncErr = NoError) <=> Valid(ResultingSchedule, missing)
        /\ ncErr = NoError =>
              /\ cleaner # NilCleaner
              /\ cleaner.Schedule = ResultingSchedule
        /\ ncErr # NoError =>
              /\ cleaner = NilCleaner
              /\ ncErr \in ErrorsCalledFor(ResultingSchedule, missing)

IsEmptyString(s) == s = StrEmpty

\* C10 as stated: NewCleaner returns a cleaner exactly when the schedule is
\* valid, with "empty start time" meaning the empty string, and otherwise the
\* error of the defect: invalid schedule type, start time not allowed, invalid
\* interval or invalid start time.
C10_ValidEmptyString == ValidatedAs(IsEmptyString)

\* C10 amended: the same, a start time counting as empty when nothing is left
\* of it after white space is trimmed; of two defects one is reported.
C10_Valid == ValidatedAs(Blank)

\* C10 witness: NewCleaner(MONTHLY, WithDayOfMonth(32), WithStartTime("10:30"))
\* has returned the invalid-interval error
C10_Witness ==
    /\ Returned
    /\ ncArgs.scheduleType = MONTHLY
    /\ ncArgs.opts = <<WithDayOfMonth(32), WithStartTime(Str1030)>>
    /\ ncErr = ErrInvalidInterval
    /\ cleaner = NilCleaner

\* the indexes of the options that supply a value for a field
Supplying(opts, zero, field(_)) == {i \in 1..Len(opts) : field(opts[i]) # zero}

\* the last value that the options supply for a field, zero if none does
LastSupplied(opts, zero, field(_)) ==
    LET idx == Supplying(opts, zero, field)
    IN  IF idx = {} THEN zero
        ELSE field(opts[CHOOSE i \in idx : \A j \in idx : j <= i])

IntervalOf(opt) == opt.Interval
IntervalValueOf(opt) == opt.IntervalValue
StartTimeOf(opt) == opt.StartTime

\* an option that contradicts the schedule kind: a start time on Frequent, a
\* week day or unit on Daily, a multiplier on a kind other than Frequent
Contradicts(scheduleType, opt) ==
    \/ scheduleType = FREQUENTLY /\ opt.StartTime # StrEmpty
    \/ scheduleType = DAILY /\ opt.Interval # 0
    \/ scheduleType \in {DAILY, WEEKLY, MONTHLY} /\ opt.IntervalValue # 0

\* C11 as stated: when an option of the call contradicts the schedule kind (a
\* start time on Frequent, a week day or unit on Daily, a multiplier on a kind
\* other than Frequent), NewCleaner returns a validation error.
C11_ContradictionRejected ==
    Returned =>
        ((\E i \in 1..Len(ncArgs.opts) : Contradicts(ncArgs.scheduleType, ncArgs.opts[i]))
            => ncErr # NoError)

\* C11 amended: NewCleaner validates the schedule made of the last non-zero
\* interval, the last non-zero multiplier and the last non-empty start time
\* that the options supply, and returns a cleaner holding exactly that
\* schedule when it is valid; what Error does not read for the kind (the
\* interval on Daily, the multiplier on a kind other than Frequent, every
\* value that a later option replaces) is accepted, and the interval of a
\* Monthly schedule is its day of month whichever option supplied it.
C11_LastSuppliedValidated ==
    Returned =>
        LET cs == CleanerSchedule(ncArgs.scheduleType,
                                  LastSupplied(ncArgs.opts, 0, IntervalOf),
                                  LastSupplied(ncArgs.opts, 0, IntervalValueOf),
                                  LastSupplied(ncArgs.opts, StrEmpty, StartTimeOf))
        IN  /\ (ncErr = NoError) <=> Valid(cs, Blank)
            /\ ncErr = NoError => cleaner.Schedule = cs

\* C11 witness: NewCleaner(MONTHLY, WithWeekDay(SATURDAY), WithStartTime("10:30"))
\* has returned a cleaner that runs on day 7 of the month
C11_Witness ==
    /\ Returned
    /\ ncArgs.scheduleType = MONTHLY
    /\ ncArgs.opts = <<WithWeekDay(SATURDAY), WithStartTime(Str1030)>>
    /\ ncErr = NoError
    /\ cleaner.Schedule.Interval = 7

(***************************************************************************)
(* Properties of the next run.  In SpecNextRun the clock stands still, so   *)
(* now is the instant at which the next run was computed.                  *)
(***************************************************************************)
\* Run or UpdateNextRun has computed the next run of a schedule of a kind
\* (GetTime has returned)
Computed(scheduleType) ==
    /\ ncArgs.scheduleType = scheduleType
    /\ runState = "polling"
    /\ last.op \in {"Run", "UpdateNextRun"}

\* the hour and minute that the start time of the schedule writes
StartTimeOfDay == GetTime(cleaner.Schedule.StartTime)

\* the next run is at the start time's hour and minute
AtStartTime ==
    /\ Hour(cleaner.NextRun) = StartTimeOfDay.hour
    /\ Minute(cleaner.NextRun) = StartTimeOfDay.minute
    /\ Second(cleaner.NextRun) = 0

\* C12 as stated: for a validated Frequent schedule with unit u and multiplier
\* n, the next run computed at time t, by Run and by UpdateNextRun, is
\* t + n * u seconds, n counting as 1 when the configured multiplier is <= 0.
C12_FrequentNextRun ==
    Computed(FREQUENTLY) =>
        LET configured == LastSupplied(ncArgs.opts, 0, IntervalValueOf)
            n == IF configured <= 0 THEN 1 ELSE configured
            u == UnitSeconds(cleaner.Schedule.Interval)
        IN  /\ (cleaner.NextRun - now) % u = 0
            /\ (cleaner.NextRun - now) \div u = n

\* C13 as stated: for a validated Daily schedule and every instant now, the
\* next run is at the start time's hour and minute on the day after
\* now's date, and it is later than now.
C13_DailyNextDay ==
    Computed(DAILY) =>
        /\ UnixDay(cleaner.NextRun) = UnixDay(now) + 1
        /\ AtStartTime
        /\ cleaner.NextRun > now

\* C14 as stated: for a validated Weekly schedule with week day w in 1..7
\* (1 = Sunday) and every instant now, the next run is on a date
\* whose week day is w, that date being the next w from now's date on (not
\* before now's date, at most one week ahead), at the start time's hour and
\* minute.
C14_WeeklyNextWeekday ==
    Computed(WEEKLY) =>
        LET w == cleaner.Schedule.Interval
            ahead == UnixDay(cleaner.NextRun) - UnixDay(now)
        IN  /\ Weekday(cleaner.NextRun) = w - 1
            /\ ahead \in 0..7
            /\ AtStartTime

\* C15 as stated: for a validated Monthly schedule with day of month d in
\* 1..31 and every instant now, the next run is in the month after
\* now's month (January of the next year after December), on day d, at the
\* start time's hour and minute.
C15_MonthlyNextMonth ==
    Computed(MONTHLY) =>
        /\ Year(cleaner.NextRun) = (IF Month(now) = 12 THEN Year(now) + 1 ELSE Year(now))
        /\ Month(cleaner.NextRun) = (IF Month(now) = 12 THEN 1 ELSE Month(now) + 1)
        /\ Day(cleaner.NextRun) = cleaner.Schedule.Interval
        /\ AtStartTime

\* a string that does not write an hour and a minute: fewer than two fields
\* between colons, or a first or second field that is not a number
Malformed(startTime) ==
    LET fields == Split(startTime, ":")
    IN  \/ Len(fields) < 2
        \/ ~Atoi(fields[1]).ok
        \/ ~Atoi(fields[2]).ok

\* C16 as stated: GetTime returns an hour and a minute for every string, and
\* (0, 0) for every malformed one; it never aborts its caller.
C16_GetTimeNeverFails ==
    gt.state # "calling" =>
        /\ gt.state = "returned"
        /\ Malformed(gt.arg) => (gt.hour = 0 /\ gt.minute = 0)

(***************************************************************************)
(* Properties of the Run loops.                                            *)
(***************************************************************************)
\* what a poll at which task n is due leaves under n in the registry when it
\* recomputes the next run of the task registered under n
TaskUpdated(n) == <<UpdateNextRun(TS[n][1], n, now, nsec)>>

\* every Run call so far has registered its cleaner under an id of its own
\* (rand.Read has not produced the same id twice)
Registered ==
    \A r \in Cleaners :
        loops[r].state # "new" => loops[r].cleaner.TaskName \in DOMAIN TS

\* C18 as stated: on every poll of a Run loop, for each registered task whose
\* next run is the current second, the store is swept and the registry entry
\* under the task's id holds afterwards that same task (same id, same
\* schedule) with the next run recomputed from its own schedule and the
\* remarks, also when several Run loops share the registry.
C18_DueTaskUpdated ==
    [][\A r \in Cleaners :
          (PollLoop(r) /\ Registered) =>
              \A n \in Due(TS, now) :
                  /\ data' = AfterCleanExpired(data, now)
                  /\ TS'[n] = TaskUpdated(n)]_vars

\* C19 as stated, as the condition without which a task cannot fire again:
\* the due check is NextRun = now and the clock does not go back, so a task
\* of a polling loop that is to fire at its next scheduled instant has a next
\* run that is not in the past, also after a second in which no poll ran.
C19_FiresAgain ==
    \A r \in Cleaners :
        (/\ loops[r].state = "polling"
         /\ loops[r].cleaner.TaskName \in DOMAIN TS)
        => TS[loops[r].cleaner.TaskName][1].NextRun >= now

\* C20 as stated: when a loop returns on a signal, it is the loop of the Run
\* call started last, and the other loops keep polling.
C20_MostRecentStops ==
    [][\A r \in Cleaners :
          (loops[r].state = "polling" /\ loops'[r].state = "returned")
          => /\ r = started[Len(started)]
             /\ \A q \in Cleaners \ {r} : loops'[q] = loops[q]]_vars

\* C20 amended: one signal on ChannelTS makes exactly one polling loop
\* return, the one whose select receives it, whichever Run call started it;
\* the signal is consumed and the other loops keep polling.
C20_OneLoopStops ==
    [][\A r \in Cleaners :
          (loops[r].state = "polling" /\ loops'[r].state = "returned")
          => /\ ChannelTS = 1
             /\ ChannelTS' = 0
             /\ \A q \in Cleaners \ {r} : loops'[q] = loops[q]]_vars

\* C20 witness: with two loops polling, the signal has just stopped the loop
\* of the Run call started first, and the loop started last keeps polling
C20_Witness ==
    /\ Len(started) = 2
    /\ last.op = "Stop"
    /\ last.key = started[1]
    /\ loops[started[1]].state = "returned"
    /\ loops[started[2]].state = "polling"
    /\ ChannelTS = 0

(***************************************************************************)
(* Properties of the schedule of a running cleaner.                        *)
(***************************************************************************)
\* C21 as stated: once NewCleaner has returned the cleaner, no step (Run with
\* the first next-run computation, UpdateNextRun with the registry update)
\* changes the kind, the interval, the multiplier or the start time of its
\* schedule.
C21_ScheduleImmutable ==
    [][cleaner'.Schedule = cleaner.Schedule]_vars

\* C21 amended: no step changes the kind, the interval or the start time; the
\* multiplier of a Frequent schedule is set to 1 by the next-run computation
\* when it is <= 0 and is left alone otherwise; the schedule stays a
\* validated one, and the registry holds the schedule of the cleaner.
C21_OnlyMultiplierDefaulted ==
    [][/\ cleaner'.Schedule.ScheduleType = cleaner.Schedule.ScheduleType
       /\ cleaner'.Schedule.Interval = cleaner.Schedule.Interval
       /\ cleaner'.Schedule.StartTime = cleaner.Schedule.StartTime
       /\ cleaner'.Schedule.IntervalValue =
             IF /\ runState' = "polling"
                /\ cleaner.Schedule.ScheduleType = FREQUENTLY
                /\ cleaner.Schedule.IntervalValue <= 0
             THEN 1
             ELSE cleaner.Schedule.IntervalValue
       /\ Error(cleaner'.Schedule) = NoError
       /\ \A n \in DOMAIN TS' \ DOMAIN TS : TS'[n][1].Schedule = cleaner'.Schedule]_vars

\* C21 witness: Run has computed the first next run of a Frequent schedule
\* that was validated with the multiplier -1, and the multiplier is now 1
C21_Witness ==
    /\ runState = "polling"
    /\ last.op = "Run"
    /\ ncArgs.scheduleType = FREQUENTLY
    /\ ResultingSchedule.IntervalValue = -1
    /\ cleaner.Schedule.IntervalValue = 1
    /\ cleaner.Schedule.Interval = ResultingSchedule.Interval

(***************************************************************************)
(* Properties of the registry.                                             *)
(***************************************************************************)
\* Run has just registered the cleaner of its loop, or found its key taken
Registers(r) == loops[r].state = "new" /\ loops'[r].state = "polling"

Holders(m) == ({m.writer} \ {"none"}) \cup m.readers

\* the mutexes in the list held, as a set
HeldSet(g) == {gos[g].held[i] : i \in 1..Len(gos[g].held)}

\* C22 as stated: the list that a poll ranges over is a snapshot.  While the
\* range statement of a poll is under way no other goroutine writes the
\* registry, and the range statement produces only keys that were in the
\* registry when GetAllCleanerSchedules returned.
C22_ListIsSnapshot ==
    [][\A h \in Ranging :
          /\ TS' # TS => locks[RegistryLock].writer = h
          /\ gos'[h].visited \subseteq gos'[h].listed]_vars

\* C23 as stated: no goroutine holds more than one mutex at a time.
C23_NoNestedLocks ==
    \A g \in DOMAIN gos : Len(gos[g].held) <= 1

\* the mutexes of goroutine g are held in one of the orders: none, one
\* mutex, or the mu of its cleaner and then TS.mu
TaskThenRegistry(g) ==
    \/ Len(gos[g].held) <= 1
    \/ gos[g].held = <<gos[g].c, RegistryLock>>

\* C23 amended: a goroutine holds at most two mutexes, and when it holds two
\* they are the mu of its own cleaner, taken first, and TS.mu, taken while
\* the first is held (in AddCleaner and in UpdateNextRun); TS.mu is never
\* held when the mu of a cleaner is taken, and the mutex of the store is
\* held alone.  The list held is what the mutexes say.
C23_TaskThenRegistry ==
    /\ \A g \in DOMAIN gos : TaskThenRegistry(g)
    /\ \A l \in DOMAIN locks : Holders(locks[l]) = {g \in DOMAIN gos : l \in HeldSet(g)}
    /\ Holders(mu) = {g \in DOMAIN gos : StoreLock \in HeldSet(g)}

\* C23 witness: a goroutine of execRunner holds the mu of its cleaner and
\* TS.mu in UpdateCleaner, while the goroutine of a Run call holds the mu of
\* its cleaner and waits for TS.mu in AddCleaner
C23_Witness ==
    /\ \E e \in Execs :
          /\ gos[e].pc = "assign"
          /\ gos[e].held = <<gos[e].c, RegistryLock>>
          /\ locks[RegistryLock].writer = e
          /\ locks[gos[e].c].writer = e
    /\ \E r \in Cleaners :
          /\ gos[r].pc \in {"get", "store"}
          /\ gos[r].held = <<r>>

\* the goroutines holding the mutex for which goroutine g waits in Lock or
\* RLock; none when g is not at such a statement or can take the mutex
WaitsFor(g) ==
    CASE gos[g].pc \in {"new", "add", "update"} ->
             IF CanLock(locks[gos[g].c]) THEN {} ELSE Holders(locks[gos[g].c])
      [] gos[g].pc \in {"store", "list", "updated"} ->
             IF CanLock(locks[RegistryLock]) THEN {} ELSE Holders(locks[RegistryLock])
      [] gos[g].pc = "get" ->
             IF CanRLock(locks[RegistryLock]) THEN {} ELSE Holders(locks[RegistryLock])
      [] gos[g].pc = "sweep" ->
             IF CanLock(mu) THEN {} ELSE Holders(mu)
      [] gos[g].pc = "rlock" ->
             IF CanRLock(mu) THEN {} ELSE Holders(mu)
      [] OTHER -> {}

\* the goroutines that wait for a mutex
Waiting == {g \in DOMAIN gos : WaitsFor(g) # {}}

\* goroutine g is not inside a call that releases a mutex: it has not
\* started, has ended, or is in the select of Run's loop
Outside(g) == gos[g].pc \in {"idle", "done", "select"}

\* a set of goroutines each of which waits for a mutex held by a goroutine
\* of the set or by one that will not release it
Deadlocked(W) ==
    /\ W # {}
    /\ \A g \in W : \E h \in WaitsFor(g) : h \in W \/ Outside(h)

\* C25: the goroutines of any Run loops, polls and store callers never wait
\* for each other's mutexes forever.  TS.mu is never held when the mu of a
\* cleaner is requested, the mutex of the store is requested and held
\* without any other, a goroutine that has left its calls holds no mutex,
\* and no set of goroutines is deadlocked.
C25_NoDeadlock ==
    ~crashed =>
        /\ \A g \in DOMAIN gos :
              /\ gos[g].pc \in {"new", "add", "update"} => gos[g].held = <<>>
              /\ gos[g].pc \in {"sweep", "sweeping"} => HeldSet(g) \subseteq {StoreLock}
              /\ Outside(g) => gos[g].held = <<>> /\ \A l \in DOMAIN locks : g \notin Holders(locks[l])
        /\ \A l \in DOMAIN locks : \A h \in Holders(locks[l]) : ~Outside(h)
        /\ \A h \in Holders(mu) : ~Outside(h)
        /\ \A W \in SUBSET Waiting : ~Deadlocked(W)

\* C25 witness: a goroutine waits for TS.mu while its holder also holds the
\* mu of a cleaner, and another goroutine waits for the mu of that cleaner
C25_Witness ==
    \E g, h, k \in DOMAIN gos :
        /\ Len(gos[h].held) = 2
        /\ h \in WaitsFor(g)
        /\ gos[g].pc \in {"store", "list", "updated", "get"}
        /\ h \in WaitsFor(k)
        /\ gos[k].pc = "update"

\* only one Run call has been made so far
SingleLoop == \E q \in Cleaners : gos[q].pc = "new"

\* C26 as stated: for a task registered by a single Run loop, each instant
\* at which the task is due leads to at most one firing (one recomputation
\* of the next run and one sweep), whatever the goroutines of the polls do.
C26_OneFiringPerInstant ==
    SingleLoop =>
        \A x, y \in fired : (x[1] = y[1] /\ x[2] = y[2]) => x[3] = y[3]

TypeOK ==
    /\ DOMAIN data \subseteq Keys
    /\ \A k \in DOMAIN data : data[k] \in MemData /\ data[k].Key = k
    /\ now \in Times
====
